---- MODULE Spec2Model ----
(***************************************************************************)
(* The podinfo operator: the reconciler (podinfo_operator.py) and its      *)
(* cluster gateway (kubeutils.py), run against one namespace of a cluster  *)
(* for one parent MyAppResource.  Every cluster API call is one step; the  *)
(* local code between two API calls belongs to the step of the call it     *)
(* follows.                                                                *)
(***************************************************************************)
EXTENDS Integers, Sequences, FiniteSets, TLC

\* ------------------------------------------------------------- bounds
MaxDisturbances == 1 \* injected cluster errors plus deletions by other actors
MaxEdits == 1        \* edits of the parent's spec by its user
MaxUiKeys == 2       \* keys of the ui section, where the section itself is the input

\* -------------------------------------------------- program constants
PODINFO_DEPLOYMENT_NAME == "podinfo"
PODINFO_PORT == 9898
REDIS_NAMED_AS_PODINFO == "podinfo"   \* variant: both components share one name
REDIS_DEPLOYMENT_NAME == "redis"
REDIS_PORT == 6379
DEFAULT_STATUS == [created_on |-> "Not Created", uid |-> ""]

Conflict == 409
NotFoundStatus == 404
ServerError == 500

NAMESPACE == "default"
PARENT_UID == "parent-uid"
None == [kind |-> "None"]
Unbound == [kind |-> "Unbound"]

\* ------------------------------------------------------- parent specs
Variants == {<<"v1", "absent">>, <<"v2", "color-message">>}   \* image tag, ui section
RedisChoices == {"absent", "disabled", "enabled"}

UiDict(u) == << <<"color", "blue">>, <<"message", "hi">> >>

SpecOf(t, u, r) ==
    [image |-> [repository |-> "myrepo", tag |-> t],
     replicaCount |-> 2,
     resources |-> [cpuRequest |-> "50m", memoryLimit |-> "64Mi"]]
    @@ (IF u = "absent" THEN <<>> ELSE [ui |-> UiDict(u)])
    @@ (IF r = "absent" THEN <<>> ELSE [redis |-> [enabled |-> (r = "enabled")]])

Specs == {SpecOf(v[1], v[2], r) : v \in Variants, r \in RedisChoices}

\* dict.get(key, {}) on the optional sections of the spec
GetUi(s) == IF "ui" \in DOMAIN s THEN s.ui ELSE <<>>
\* variant: a redis section that is present counts as enabled
GetRedisEnabledWhenPresent(s) == "redis" \in DOMAIN s
GetRedisEnabled(s) == IF "redis" \in DOMAIN s THEN s.redis.enabled ELSE FALSE

\* ------------------------------------------------------ ResourceBuilder
NameLabel(n) == [name |-> n]     \* {"app.kubernetes.io/name": n}

create_deployment_object(n, namespace, image_registry, image_tag, replicas, resources, expose_ports, env_vars) ==
    [kind |-> "Deployment",
     metadata |-> [name |-> n, namespace |-> namespace, uid |-> "",
                   creation_timestamp |-> 0, ownerReferences |-> {}],
     spec |-> [replicas |-> replicas,
               selector |-> [matchLabels |-> NameLabel(n)],
               template |-> [labels |-> NameLabel(n),
                             containers |-> << [name |-> n,
                                                image |-> image_registry \o ":" \o image_tag,
                                                ports |-> expose_ports,
                                                resources |-> resources,
                                                env |-> env_vars] >>]]]

create_service_object(n, namespace, ports, selector) ==
    [kind |-> "Service",
     metadata |-> [name |-> n, namespace |-> namespace, uid |-> "",
                   creation_timestamp |-> 0, ownerReferences |-> {}],
     spec |-> [selector |-> selector, ports |-> ports, type |-> "ClusterIP"]]

\* variant: the key is used as written
UpperAsWritten(k) == k
\* str.upper() on the keys the specs use
Upper(k) ==
    CASE k = "color" -> "COLOR"
      [] k = "message" -> "MESSAGE"
      [] k = "Logo" -> "LOGO"
      [] k = "redis" -> "REDIS"
      [] k = "redisHost" -> "REDISHOST"
      [] OTHER -> k

\* the parameters create_podinfo_deployment_and_service passes on
PodinfoArgs(s) ==
    LET ui == GetUi(s)
        ui_vars == [i \in 1..Len(ui) |->
                      [name |-> "PODINFO_UI_" \o Upper(ui[i][1]), value |-> ui[i][2]]]
        default_env_vars ==
            << [name |-> "PODINFO_CACHE_SERVER",
                value |-> "tcp://" \o REDIS_DEPLOYMENT_NAME \o ":" \o ToString(REDIS_PORT)] >>
    IN [name |-> PODINFO_DEPLOYMENT_NAME,
        image_repo |-> s.image.repository,
        image_tag |-> s.image.tag,
        replicas |-> s.replicaCount,
        resources |-> [requests |-> [cpu |-> s.resources.cpuRequest],
                       limits |-> [memory |-> s.resources.memoryLimit]],
        expose_port |-> PODINFO_PORT,
        env_vars |-> default_env_vars \o ui_vars]

\* variant: redis takes its replica count from the parent's spec
RedisArgsSpecReplicas(s) ==
    [name |-> REDIS_DEPLOYMENT_NAME,
     image_repo |-> "redis",
     image_tag |-> "7.0.12",
     replicas |-> s.replicaCount,
     resources |-> [requests |-> [cpu |-> "100m", memory |-> "32Mi"],
                    limits |-> [cpu |-> "1000m", memory |-> "128Mi"]],
     expose_port |-> REDIS_PORT,
     env_vars |-> <<>>]
\* variant: redis takes its image tag from the parent's spec
RedisArgsSpecTag(s) ==
    [name |-> REDIS_DEPLOYMENT_NAME,
     image_repo |-> "redis",
     image_tag |-> s.image.tag,
     replicas |-> 1,
     resources |-> [requests |-> [cpu |-> "100m", memory |-> "32Mi"],
                    limits |-> [cpu |-> "1000m", memory |-> "128Mi"]],
     expose_port |-> REDIS_PORT,
     env_vars |-> <<>>]
\* the parameters create_redis_deployment_and_service passes on
\* (env_vars defaults to None, an absent list)
RedisArgs(s) ==
    [name |-> REDIS_DEPLOYMENT_NAME,
     image_repo |-> "redis",
     image_tag |-> "7.0.12",
     replicas |-> 1,
     resources |-> [requests |-> [cpu |-> "100m", memory |-> "32Mi"],
                    limits |-> [cpu |-> "1000m", memory |-> "128Mi"]],
     expose_port |-> REDIS_PORT,
     env_vars |-> <<>>]

\* create_deployment_and_service, lines 63-72
BuildDeployment(a) ==
    create_deployment_object(a.name, NAMESPACE, a.image_repo, a.image_tag, a.replicas,
                             a.resources, << [container_port |-> a.expose_port] >>,
                             a.env_vars)

\* variant: every Service exposes podinfo's port
BuildServicePodinfoPort(a) ==
    create_service_object(a.name, NAMESPACE,
                          << [name |-> a.name, protocol |-> "TCP", port |-> PODINFO_PORT] >>,
                          NameLabel(a.name))
\* create_deployment_and_service, lines 74-79
BuildService(a) ==
    create_service_object(a.name, NAMESPACE,
                          << [name |-> a.name, protocol |-> "TCP", port |-> a.expose_port] >>,
                          NameLabel(a.name))

\* variant: adoption leaves the object as built
AdoptNothing(obj) == obj
\* kopf.adopt(obj): the object gets an owner reference to the parent
Adopt(obj) ==
    [obj EXCEPT !.metadata.ownerReferences = @ \cup {PARENT_UID}]

\* datetime.strftime("%c")
StrfTime(ts) == "ts-" \o ToString(ts)

\* -------------------------------------------------------------- state
VARIABLES
    deployments,     \* the namespace's live Deployments
    services,        \* the namespace's live Services
    clock,           \* the cluster's creation counter (uid and timestamp source)
    spec,            \* the parent's spec
    status,          \* the parent's persisted status
    phase,           \* the framework's pending event: "create", "update" or "idle"
    pdiff,           \* the diff of the pending update event
    pc,              \* the running handler's position ("idle": none running)
    handler,         \* the running (or last run) handler
    diff,            \* on_update: the diff entries not yet processed
    new_status,      \* on_update: new_status
    name,            \* the component being built or looked up
    deploy_obj,      \* create_deployment_and_service: deploy_obj
    svc_obj,         \* create_deployment_and_service: svc_obj
    deployment,      \* create_deployment_and_service: deployment
    podinfo_status,  \* on_create: podinfo_status
    trace,           \* what the running (or last run) handler did, in order
    result,          \* how the last handler invocation ended
    faults,          \* cluster errors injected so far
    externals,       \* external deletions so far
    edits,           \* spec edits so far
    applied,         \* per component: its completed create sequences in a row
    default_status   \* the module's DEFAULT_STATUS dict, as it is now (line 19)

cluster == <<deployments, services, clock>>
parent == <<spec, status, phase, pdiff>>
locals == <<diff, new_status, name, deploy_obj, svc_obj, deployment, podinfo_status>>
budgets == <<faults, externals, edits>>
vars == <<deployments, services, clock, spec, status, phase, pdiff, pc, handler,
          diff, new_status, name, deploy_obj, svc_obj, deployment, podinfo_status,
          trace, result, faults, externals, edits, applied, default_status>>

\* ------------------------------------------------- the cluster's API
Named(objs, n) == {o \in objs : o.metadata.name = n}
Exists(objs, n) == Named(objs, n) # {}
TheObject(objs, n) == CHOOSE o \in objs : o.metadata.name = n

\* the object the cluster stores for an accepted create
Live(body) ==
    [body EXCEPT !.metadata.uid = "uid-" \o ToString(clock),
                 !.metadata.creation_timestamp = clock]

\* a strategic merge of a list keyed by name: entries of the patch replace the
\* entries of their name, the others stay, new names are appended
MergeByName(old, new) ==
    LET pick(e) == IF \E j \in 1..Len(new) : new[j].name = e.name
                   THEN new[CHOOSE j \in 1..Len(new) : new[j].name = e.name]
                   ELSE e
        fresh(e) == \A i \in 1..Len(old) : old[i].name # e.name
    IN [i \in 1..Len(old) |-> pick(old[i])] \o SelectSeq(new, fresh)

\* variant: a patch that leaves the stored Deployment as it is
PatchedDeploymentUntouched(live, body) == live
\* the object the cluster stores for an accepted patch of a Deployment
PatchedDeployment(live, body) ==
    LET c == live.spec.template.containers[1]
        b == body.spec.template.containers[1]
    IN [live EXCEPT
          !.metadata.ownerReferences = @ \cup body.metadata.ownerReferences,
          !.spec.replicas = body.spec.replicas,
          !.spec.selector = body.spec.selector,
          !.spec.template.labels = body.spec.template.labels,
          !.spec.template.containers =
              << [name |-> b.name, image |-> b.image, ports |-> b.ports,
                  resources |-> b.resources, env |-> MergeByName(c.env, b.env)] >>]

\* the object the cluster stores for an accepted patch of a Service
PatchedService(live, body) ==
    [live EXCEPT
       !.metadata.ownerReferences = @ \cup body.metadata.ownerReferences,
       !.spec = body.spec]

\* list_namespaced_deployment(...).items, in the cluster's name order
ListItems(objs) ==
    (IF Exists(objs, PODINFO_DEPLOYMENT_NAME)
     THEN <<TheObject(objs, PODINFO_DEPLOYMENT_NAME)>> ELSE <<>>)
    \o (IF Exists(objs, REDIS_DEPLOYMENT_NAME)
        THEN <<TheObject(objs, REDIS_DEPLOYMENT_NAME)>> ELSE <<>>)

\* variant: the first listed item, whatever its name
ScanItemsFirst(items, n) == IF items = <<>> THEN None ELSE Head(items)
\* get_deployment's loop over the listed items
RECURSIVE ScanItems(_, _)
ScanItems(items, n) ==
    IF items = <<>> THEN None
    ELSE IF Head(items).metadata.name = n THEN Head(items)
    ELSE ScanItems(Tail(items), n)

\* ------------------------------------------------------------ the trace
CallEvent(fn, n, body) ==
    [ev |-> "call", fn |-> fn, name |-> n, namespace |-> NAMESPACE, body |-> body]
ApiEvent(fn, api, n, namespace, body, code) ==
    [ev |-> "api", fn |-> fn, api |-> api, name |-> n, namespace |-> namespace,
     body |-> body, code |-> code]
ReturnEvent(fn, value) == [ev |-> "return", fn |-> fn, value |-> value]
RaiseEvent(fn, exc) == [ev |-> "raise", fn |-> fn, exc |-> exc]
AdoptEvent(obj) == [ev |-> "adopt", kind |-> obj.kind, name |-> obj.metadata.name]

ApiException(code) == [type |-> "ApiException", status |-> code]
UnboundLocalError == [type |-> "UnboundLocalError"]
KeyError == [type |-> "KeyError"]
V1Status == [kind |-> "Status"]

NoResult == [kind |-> "none"]

\* ------------------------------------------------------------- Init
Init ==
    /\ default_status = DEFAULT_STATUS
    /\ deployments = {}
    /\ services = {}
    /\ clock = 1
    /\ spec \in Specs
    /\ status = <<>>
    /\ phase = "create"
    /\ pdiff = <<>>
    /\ pc = "idle"
    /\ handler = "none"
    /\ diff = <<>>
    /\ new_status = None
    /\ name = ""
    /\ deploy_obj = None
    /\ svc_obj = None
    /\ deployment = Unbound
    /\ podinfo_status = None
    /\ trace = <<>>
    /\ result = NoResult
    /\ faults = 0
    /\ externals = 0
    /\ edits = 0
    /\ applied = [n \in {PODINFO_DEPLOYMENT_NAME, REDIS_DEPLOYMENT_NAME} |-> None]

\* the handler's locals once it is over
ResetLocals ==
    /\ diff' = <<>>
    /\ new_status' = None
    /\ name' = ""
    /\ deploy_obj' = None
    /\ svc_obj' = None
    /\ deployment' = Unbound
    /\ podinfo_status' = None

\* variant: the exception is swallowed and the create sequence goes on
RaiseSwallowed(exc, tr) ==
    /\ trace' = tr
    /\ pc' = "create_service"
    /\ UNCHANGED <<parent, locals, result>>
\* an exception leaves the handler: the framework keeps the event pending
Raise(exc, tr) ==
    /\ result' = [kind |-> "raise", exc |-> exc]
    /\ trace' = tr
    /\ pc' = "idle"
    /\ ResetLocals
    /\ UNCHANGED parent

\* variant: the handler returns nothing
ReturnNone(value, tr) ==
    /\ result' = [kind |-> "return", value |-> None]
    /\ trace' = tr
    /\ pc' = "idle"
    /\ ResetLocals
    /\ status' = (handler :> None) @@ status
    /\ phase' = "idle"
    /\ UNCHANGED <<spec, pdiff>>
\* the handler returns value: the framework stores it under status.<handler>
Return(value, tr) ==
    /\ result' = [kind |-> "return", value |-> value]
    /\ trace' = tr
    /\ pc' = "idle"
    /\ ResetLocals
    /\ status' = (handler :> value) @@ status
    /\ phase' = "idle"
    /\ UNCHANGED <<spec, pdiff>>

\* ------------------------------------------------ create path (shared)
\* variant: the create sequence builds podinfo whatever component is asked for
ArgsPodinfo(n, s) == PodinfoArgs(s)
Args(n, s) == IF n = PODINFO_DEPLOYMENT_NAME THEN PodinfoArgs(s) ELSE RedisArgs(s)

\* create_deployment_and_service, lines 63-79: build both objects
create_deployment_and_service ==
    /\ UNCHANGED default_status
    /\ pc = "build"
    /\ UNCHANGED applied
    /\ deploy_obj' = BuildDeployment(Args(name, spec))
    /\ svc_obj' = BuildService(Args(name, spec))
    /\ pc' = "adopt_deploy_obj"
    /\ UNCHANGED <<cluster, parent, handler, diff, new_status, name, deployment,
                   podinfo_status, trace, result, budgets>>

\* line 81: kopf.adopt(deploy_obj)
adopt_deploy_obj ==
    /\ UNCHANGED default_status
    /\ pc = "adopt_deploy_obj"
    /\ UNCHANGED applied
    /\ deploy_obj' = Adopt(deploy_obj)
    /\ trace' = Append(trace, AdoptEvent(deploy_obj))
    /\ pc' = "adopt_svc_obj"
    /\ UNCHANGED <<cluster, parent, handler, diff, new_status, name, svc_obj, deployment,
                   podinfo_status, result, budgets>>

\* line 82: kopf.adopt(svc_obj)
adopt_svc_obj ==
    /\ UNCHANGED default_status
    /\ pc = "adopt_svc_obj"
    /\ UNCHANGED applied
    /\ svc_obj' = Adopt(svc_obj)
    /\ trace' = Append(trace, AdoptEvent(svc_obj))
    /\ pc' = "create_deployment"
    /\ UNCHANGED <<cluster, parent, handler, diff, new_status, name, deploy_obj, deployment,
                   podinfo_status, result, budgets>>

\* variant: a cluster without conflict detection accepts every create
CreateCodeAccepted(objs, n) == 201
\* the cluster's answer to a create of an object named n
CreateCode(objs, n) == IF Exists(objs, n) THEN Conflict ELSE 201
\* the cluster's answer to a patch or a delete of the object named n
ByNameCode(objs, n) == IF Exists(objs, n) THEN 200 ELSE NotFoundStatus

\* a cluster error or an external deletion may happen while the budget lasts
Disturbable == faults + externals < MaxDisturbances
Answers(code) == {code} \cup (IF Disturbable THEN {ServerError} ELSE {})
CountFault(code) == faults' = IF code = ServerError THEN faults + 1 ELSE faults

\* variants: no answer to a Deployment create counts as a conflict, and only
\* a server error does
DeploymentConflictNever(code) == FALSE
DeploymentConflictOnServerError(code) == code = ServerError
\* variant: the Deployment fallback keyed on 404
DeploymentConflictOnNotFound(code) == code = NotFoundStatus
\* kubeutils.py line 118: if ex.status == 409
DeploymentConflict(code) == code = Conflict
\* variants: the Service fallback keyed on 404, and no fallback at all
ServiceConflictOnNotFound(code) == code = NotFoundStatus
ServiceConflictNever(code) == FALSE
\* kubeutils.py line 146: if ex.status == 409
ServiceConflict(code) == code = Conflict
\* variant: every failed Deployment delete is raised again, 404 included
DeploymentDeleteReraisedAlways(code) == TRUE
\* kubeutils.py line 172: if not ex.status == 404: raise
DeploymentDeleteReraised(code) == ~(code = NotFoundStatus)
\* variant: no failed Service delete is raised again
ServiceDeleteReraisedNever(code) == FALSE
\* kubeutils.py line 195: if not ex.status == 404: raise
ServiceDeleteReraised(code) == ~(code = NotFoundStatus)

\* create_or_update_deployment, lines 112-118 and 122: the create call
create_or_update_deployment ==
    /\ UNCHANGED default_status
    /\ pc = "create_deployment"
    /\ UNCHANGED applied
    /\ \E code \in Answers(CreateCode(deployments, deploy_obj.metadata.name)) :
         LET fn == "create_or_update_deployment"
             tr == trace \o << CallEvent(fn, name, deploy_obj),
                               ApiEvent(fn, "create_namespaced_deployment", "", NAMESPACE,
                                        deploy_obj, code) >>
         IN /\ CountFault(code)
            /\ IF code = 201
               THEN /\ deployments' = deployments \cup {Live(deploy_obj)}
                    /\ clock' = clock + 1
                    /\ deployment' = Live(deploy_obj)
                    /\ trace' = Append(tr, ReturnEvent(fn, Live(deploy_obj)))
                    /\ pc' = "create_service"
                    /\ UNCHANGED <<services, parent, diff, new_status, name, deploy_obj,
                                   svc_obj, podinfo_status, result>>
               ELSE IF DeploymentConflict(code)
               THEN /\ trace' = tr
                    /\ pc' = "patch_deployment"
                    /\ UNCHANGED <<cluster, parent, locals, result>>
               ELSE \* the error is swallowed; "return deployment" finds no value
                    /\ Raise(UnboundLocalError, Append(tr, RaiseEvent(fn, UnboundLocalError)))
                    /\ UNCHANGED cluster
    /\ UNCHANGED <<handler, externals, edits>>

\* create_or_update_deployment, lines 119-122: the patch call
patch_deployment ==
    /\ UNCHANGED default_status
    /\ pc = "patch_deployment"
    /\ UNCHANGED applied
    /\ \E code \in Answers(ByNameCode(deployments, name)) :
         LET fn == "create_or_update_deployment"
             tr == Append(trace, ApiEvent(fn, "patch_namespaced_deployment", name, NAMESPACE,
                                          deploy_obj, code))
         IN /\ CountFault(code)
            /\ IF code = 200
               THEN LET old == TheObject(deployments, name)
                        new == PatchedDeployment(old, deploy_obj)
                    IN /\ deployments' = (deployments \ {old}) \cup {new}
                       /\ deployment' = new
                       /\ trace' = Append(tr, ReturnEvent(fn, new))
                       /\ pc' = "create_service"
                       /\ UNCHANGED <<services, clock, parent, diff, new_status, name,
                                      deploy_obj, svc_obj, podinfo_status, result>>
               ELSE /\ Raise(ApiException(code), Append(tr, RaiseEvent(fn, ApiException(code))))
                    /\ UNCHANGED cluster
    /\ UNCHANGED <<handler, externals, edits>>

\* variant: the metadata of the object as built, before the cluster stored it
MetadataAsBuilt(d) == [created_on |-> StrfTime(0), uid |-> ""]
\* create_deployment_and_service, lines 89-92
Metadata(d) ==
    [created_on |-> StrfTime(d.metadata.creation_timestamp), uid |-> d.metadata.uid]

\* on_create, lines 207-212
Children(redis_status, podinfo_st) ==
    [children |-> [redis |-> redis_status, podInfo |-> podinfo_st]]

\* variant: each component's status is stored under the other's key
StatusKeySwapped(n) == IF n = REDIS_DEPLOYMENT_NAME THEN "podInfo" ELSE "redis"
\* on_update, lines 257 and 272: the status key of a component
StatusKey(n) == IF n = REDIS_DEPLOYMENT_NAME THEN "redis" ELSE "podInfo"

\* variant: the loop stays on the entry it has just handled
NextEntryAgain ==
    /\ diff' = diff
    /\ pc' = "loop"
\* on_update, line 247: the next diff entry
NextEntry ==
    /\ diff' = Tail(diff)
    /\ pc' = "loop"

\* the index of the last event of the trace tr that is an API call of api
LastApi(tr, api) ==
    CHOOSE i \in 1..Len(tr) :
        /\ tr[i].ev = "api" /\ tr[i].api = api
        /\ \A j \in (i + 1)..Len(tr) : ~(tr[j].ev = "api" /\ tr[j].api = api)

\* the record of the component's completed create sequences in a row (no
\* deletion of its objects since the first of them began): the objects built,
\* the uid each run reported, whether each run patched both
Applied(before, metadata, tr) ==
    LET patched == /\ tr[LastApi(tr, "create_namespaced_deployment")].code = Conflict
                   /\ tr[LastApi(tr, "create_namespaced_service")].code = Conflict
    IN IF before # None /\ before.deploy_obj = deploy_obj /\ before.svc_obj = svc_obj
       THEN [before EXCEPT !.uids = Append(@, metadata.uid),
                           !.patched = Append(@, patched)]
       ELSE [deploy_obj |-> deploy_obj, svc_obj |-> svc_obj,
             uids |-> <<metadata.uid>>, patched |-> <<patched>>]

\* variant: the entry of new_status is updated in place, so an entry that is
\* the DEFAULT_STATUS dict changes DEFAULT_STATUS
DefaultStatusUpdatedInPlace(d, entry, metadata) == IF entry = d THEN metadata ELSE d
\* lines 257 and 272: new_status.update({key: metadata}) rebinds the key of
\* new_status; the dict the key was bound to is not written
DefaultStatusAfterUpdate(d, entry, metadata) == d

\* once the Service call has returned (events), create_deployment_and_service
\* returns its metadata (lines 89-93) and the calling handler goes on:
\* on_create lines 201-212, on_update lines 257 and 272
create_deployment_and_service_return(events) ==
    /\ LET metadata == Metadata(deployment)
           tr == Append(events, ReturnEvent("create_deployment_and_service", metadata))
       IN IF handler = "on_create"
          THEN IF name = PODINFO_DEPLOYMENT_NAME
               THEN IF GetRedisEnabled(spec)
                    THEN /\ podinfo_status' = metadata
                         /\ name' = REDIS_DEPLOYMENT_NAME
                         /\ deploy_obj' = None
                         /\ svc_obj' = None
                         /\ deployment' = Unbound
                         /\ trace' = tr
                         /\ pc' = "build"
                         /\ UNCHANGED <<parent, diff, new_status, result>>
                    ELSE Return(Children(default_status, metadata), tr)
               ELSE Return(Children(metadata, podinfo_status), tr)
          ELSE /\ new_status' = [new_status EXCEPT ![StatusKey(name)] = metadata]
               /\ NextEntry
               /\ deploy_obj' = None
               /\ svc_obj' = None
               /\ deployment' = Unbound
               /\ trace' = tr
               /\ UNCHANGED <<parent, name, podinfo_status, result>>
    /\ applied' = [applied EXCEPT
                      ![name] = IF Exists(deployments, name)
                                THEN Applied(applied[name], Metadata(deployment), events)
                                ELSE None]
    /\ default_status' =
          IF handler = "on_update"
          THEN DefaultStatusAfterUpdate(default_status, new_status[StatusKey(name)],
                                        Metadata(deployment))
          ELSE default_status

\* create_or_update_service, lines 142-146 and 150: the create call
create_or_update_service ==
    /\ pc = "create_service"
    /\ \E code \in Answers(CreateCode(services, svc_obj.metadata.name)) :
         LET fn == "create_or_update_service"
             tr == trace \o << CallEvent(fn, name, svc_obj),
                               ApiEvent(fn, "create_namespaced_service", "", NAMESPACE,
                                        svc_obj, code) >>
         IN /\ CountFault(code)
            /\ IF code = 201
               THEN /\ services' = services \cup {Live(svc_obj)}
                    /\ clock' = clock + 1
                    /\ create_deployment_and_service_return(
                           Append(tr, ReturnEvent(fn, Live(svc_obj))))
                    /\ UNCHANGED deployments
               ELSE IF ServiceConflict(code)
               THEN /\ trace' = tr
                    /\ pc' = "patch_service"
                    /\ UNCHANGED <<cluster, parent, locals, result, applied, default_status>>
               ELSE \* the error is swallowed; "return service" finds no value
                    /\ Raise(UnboundLocalError, Append(tr, RaiseEvent(fn, UnboundLocalError)))
                    /\ UNCHANGED <<cluster, applied, default_status>>
    /\ UNCHANGED <<handler, externals, edits>>

\* create_or_update_service, lines 147-150: the patch call
patch_service ==
    /\ pc = "patch_service"
    /\ \E code \in Answers(ByNameCode(services, name)) :
         LET fn == "create_or_update_service"
             tr == Append(trace, ApiEvent(fn, "patch_namespaced_service", name, NAMESPACE,
                                          svc_obj, code))
         IN /\ CountFault(code)
            /\ IF code = 200
               THEN LET old == TheObject(services, name)
                        new == PatchedService(old, svc_obj)
                    IN /\ services' = (services \ {old}) \cup {new}
                       /\ create_deployment_and_service_return(
                              Append(tr, ReturnEvent(fn, new)))
                       /\ UNCHANGED <<deployments, clock>>
               ELSE /\ Raise(ApiException(code), Append(tr, RaiseEvent(fn, ApiException(code))))
                    /\ UNCHANGED <<cluster, applied, default_status>>
    /\ UNCHANGED <<handler, externals, edits>>

\* ------------------------------------------------------------ on_create
\* lines 195-199: the handler starts and calls the podinfo create sequence
on_create ==
    /\ UNCHANGED default_status
    /\ pc = "idle"
    /\ UNCHANGED applied
    /\ phase = "create"
    /\ handler' = "on_create"
    /\ name' = PODINFO_DEPLOYMENT_NAME
    /\ trace' = <<>>
    /\ result' = NoResult
    /\ pc' = "build"
    /\ UNCHANGED <<cluster, parent, diff, new_status, deploy_obj, svc_obj, deployment,
                   podinfo_status, budgets>>

\* ------------------------------------------------------------ on_update
\* variant: a status without on_create.children counts as the default children
on_update_defaulted ==
    /\ UNCHANGED default_status
    /\ pc = "idle"
    /\ UNCHANGED applied
    /\ phase = "update"
    /\ handler' = "on_update"
    /\ new_status' = IF "on_create" \in DOMAIN status
                     THEN status.on_create.children
                     ELSE [redis |-> DEFAULT_STATUS, podInfo |-> DEFAULT_STATUS]
    /\ diff' = pdiff
    /\ trace' = <<>>
    /\ result' = NoResult
    /\ pc' = "loop"
    /\ UNCHANGED <<parent, name, deploy_obj, svc_obj, deployment, podinfo_status>>
    /\ UNCHANGED <<cluster, budgets>>
\* line 246: the handler starts from the children recorded by on_create
on_update ==
    /\ UNCHANGED default_status
    /\ pc = "idle"
    /\ UNCHANGED applied
    /\ phase = "update"
    /\ handler' = "on_update"
    /\ IF "on_create" \in DOMAIN status
       THEN /\ new_status' = status.on_create.children
            /\ diff' = pdiff
            /\ trace' = <<>>
            /\ result' = NoResult
            /\ pc' = "loop"
            /\ UNCHANGED <<parent, name, deploy_obj, svc_obj, deployment, podinfo_status>>
       ELSE Raise(KeyError, <<RaiseEvent("on_update", KeyError)>>)
    /\ UNCHANGED <<cluster, budgets>>

\* variant: only the last element of the path is looked at
InFieldLast(x, field) == field[Len(field)] = x
\* variant: the path has to begin with the section, as in (spec, x, ...)
InFieldSection(x, field) == Len(field) >= 2 /\ field[2] = x
\* line 248: "redis" in field
InField(x, field) == \E i \in 1..Len(field) : field[i] = x

\* line 250: ("spec", "redis", "enabled") == field and new_val
RedisEnabled(e) == e.field = <<"spec", "redis", "enabled">> /\ e.new = TRUE

\* lines 247-252, 258, 264-268 and 274: the loop picks the entry's branch
on_update_loop ==
    /\ UNCHANGED default_status
    /\ pc = "loop"
    /\ UNCHANGED applied
    /\ IF diff = <<>>
       THEN Return(new_status, trace)
       ELSE /\ IF InField("redis", Head(diff).field)
               THEN IF RedisEnabled(Head(diff))
                    THEN /\ name' = REDIS_DEPLOYMENT_NAME
                         /\ pc' = "get_deployment"
                    ELSE /\ name' = REDIS_DEPLOYMENT_NAME
                         /\ pc' = "teardown_deployment"
               ELSE /\ name' = PODINFO_DEPLOYMENT_NAME
                    /\ pc' = "get_deployment"
            /\ UNCHANGED <<parent, diff, new_status, deploy_obj, svc_obj, deployment,
                           podinfo_status, trace, result>>
    /\ UNCHANGED <<cluster, handler, budgets>>

\* variants: the create sequence runs whatever the lookup found, never, and
\* whenever it found nothing
ProceedsAlways(n, found) == TRUE
ProceedsNever(n, found) == FALSE
ProceedsWhenAbsent(n, found) == found = None
\* on_update, line 253 (redis: "if not get_deployment(...)") and line 268
\* (podinfo: "if get_deployment(...)"): whether the create sequence runs
Proceeds(n, found) == (n = REDIS_DEPLOYMENT_NAME) = (found = None)

\* get_deployment (kubeutils.py lines 216-220) and the branch on its result:
\* line 253 for redis (create when absent), line 268 for podinfo (re-apply
\* when present)
get_deployment ==
    /\ UNCHANGED default_status
    /\ pc = "get_deployment"
    /\ UNCHANGED applied
    /\ \E code \in Answers(200) :
         LET fn == "get_deployment"
             tr == trace \o << CallEvent(fn, name, None),
                               ApiEvent(fn, "list_namespaced_deployment", "", NAMESPACE,
                                        None, code) >>
             found == ScanItems(ListItems(deployments), name)
         IN /\ CountFault(code)
            /\ IF code = 200
               THEN /\ trace' = Append(tr, ReturnEvent(fn, found))
                    /\ IF Proceeds(name, found)
                       THEN /\ pc' = "build"
                            /\ UNCHANGED diff
                       ELSE NextEntry
                    /\ UNCHANGED <<parent, new_status, name, deploy_obj, svc_obj, deployment,
                                   podinfo_status, result>>
               ELSE Raise(ApiException(code), Append(tr, RaiseEvent(fn, ApiException(code))))
    /\ UNCHANGED <<cluster, handler, externals, edits>>

\* teardown_deployment, kubeutils.py lines 169-173
teardown_deployment ==
    /\ UNCHANGED default_status
    /\ pc = "teardown_deployment"
    /\ \E code \in Answers(ByNameCode(deployments, name)) :
         LET fn == "teardown_deployment"
             tr == trace \o << CallEvent(fn, name, None),
                               ApiEvent(fn, "delete_namespaced_deployment", name, NAMESPACE,
                                        None, code) >>
         IN /\ CountFault(code)
            /\ IF code = 200
               THEN /\ deployments' = deployments \ Named(deployments, name)
                    /\ applied' = [applied EXCEPT ![name] = None]
                    /\ trace' = Append(tr, ReturnEvent(fn, V1Status))
                    /\ pc' = "teardown_service"
                    /\ UNCHANGED <<services, clock, parent, locals, result>>
               ELSE IF DeploymentDeleteReraised(code)
               THEN /\ Raise(ApiException(code), Append(tr, RaiseEvent(fn, ApiException(code))))
                    /\ UNCHANGED <<cluster, applied>>
               ELSE /\ trace' = Append(tr, ReturnEvent(fn, None))
                    /\ pc' = "teardown_service"
                    /\ UNCHANGED <<cluster, parent, locals, result, applied>>
    /\ UNCHANGED <<handler, externals, edits>>

\* variant: the redis Service is left in place
teardown_service_skipped ==
    /\ UNCHANGED default_status
    /\ pc = "teardown_service"
    /\ NextEntry
    /\ UNCHANGED <<cluster, parent, handler, new_status, name, deploy_obj, svc_obj,
                   deployment, podinfo_status, trace, result, budgets, applied>>
\* teardown_service, kubeutils.py lines 192-196; then the next diff entry
teardown_service ==
    /\ UNCHANGED default_status
    /\ pc = "teardown_service"
    /\ \E code \in Answers(ByNameCode(services, name)) :
         LET fn == "teardown_service"
             tr == trace \o << CallEvent(fn, name, None),
                               ApiEvent(fn, "delete_namespaced_service", name, NAMESPACE,
                                        None, code) >>
         IN /\ CountFault(code)
            /\ IF code = 200
               THEN /\ services' = services \ Named(services, name)
                    /\ applied' = [applied EXCEPT ![name] = None]
                    /\ trace' = Append(tr, ReturnEvent(fn, V1Status))
                    /\ NextEntry
                    /\ UNCHANGED <<deployments, clock, parent, new_status, name, deploy_obj,
                                   svc_obj, deployment, podinfo_status, result>>
               ELSE IF ServiceDeleteReraised(code)
               THEN /\ Raise(ApiException(code), Append(tr, RaiseEvent(fn, ApiException(code))))
                    /\ UNCHANGED <<cluster, applied>>
               ELSE /\ trace' = Append(tr, ReturnEvent(fn, None))
                    /\ NextEntry
                    /\ UNCHANGED <<cluster, parent, new_status, name, deploy_obj, svc_obj,
                                   deployment, podinfo_status, result, applied>>
    /\ UNCHANGED <<handler, externals, edits>>

\* ------------------------------------------------------ the environment
UiHas(u, k) == \E i \in 1..Len(u) : u[i][1] = k
UiValue(u, k) == u[CHOOSE i \in 1..Len(u) : u[i][1] = k][2]

\* the entries for a ui section both specs have: one per key removed, changed
\* or added
UiKeyDiff(a, b) ==
    IF "ui" \in DOMAIN a /\ "ui" \in DOMAIN b
    THEN LET olds == [i \in 1..Len(a.ui) |->
                        IF UiHas(b.ui, a.ui[i][1])
                        THEN [op |-> "change", field |-> <<"spec", "ui", a.ui[i][1]>>,
                              old |-> a.ui[i][2], new |-> UiValue(b.ui, a.ui[i][1])]
                        ELSE [op |-> "remove", field |-> <<"spec", "ui", a.ui[i][1]>>,
                              old |-> a.ui[i][2], new |-> None]]
             news == [i \in 1..Len(b.ui) |->
                        [op |-> "add", field |-> <<"spec", "ui", b.ui[i][1]>>,
                         old |-> None, new |-> b.ui[i][2]]]
         IN SelectSeq(olds, LAMBDA e : e.op = "remove" \/ e.old # e.new)
            \o SelectSeq(news, LAMBDA e : ~UiHas(a.ui, e.field[3]))
    ELSE <<>>

\* the framework's diff of two specs: one entry per changed field, an added
\* or removed section being one entry
KopfDiff(a, b) ==
    (IF a.image.tag # b.image.tag
     THEN << [op |-> "change", field |-> <<"spec", "image", "tag">>,
              old |-> a.image.tag, new |-> b.image.tag] >>
     ELSE <<>>)
    \o (IF "ui" \in DOMAIN a /\ "ui" \notin DOMAIN b
        THEN << [op |-> "remove", field |-> <<"spec", "ui">>, old |-> a.ui, new |-> None] >>
        ELSE IF "ui" \notin DOMAIN a /\ "ui" \in DOMAIN b
        THEN << [op |-> "add", field |-> <<"spec", "ui">>, old |-> None, new |-> b.ui] >>
        ELSE <<>>)
    \o (IF "redis" \in DOMAIN a /\ "redis" \notin DOMAIN b
        THEN << [op |-> "remove", field |-> <<"spec", "redis">>,
                 old |-> a.redis, new |-> None] >>
        ELSE IF "redis" \notin DOMAIN a /\ "redis" \in DOMAIN b
        THEN << [op |-> "add", field |-> <<"spec", "redis">>,
                 old |-> None, new |-> b.redis] >>
        ELSE IF "redis" \in DOMAIN a /\ a.redis.enabled # b.redis.enabled
        THEN << [op |-> "change", field |-> <<"spec", "redis", "enabled">>,
                 old |-> a.redis.enabled, new |-> b.redis.enabled] >>
        ELSE <<>>)
    \o UiKeyDiff(a, b)

\* the parent's user edits the spec; the framework queues the update event
\* with the diff, its entries in no particular order
EditSpec ==
    /\ UNCHANGED default_status
    /\ pc = "idle"
    /\ UNCHANGED applied
    /\ phase = "idle"
    /\ edits < MaxEdits
    /\ \E new \in Specs \ {spec} :
         LET d == KopfDiff(spec, new)
         IN \E p \in Permutations(1..Len(d)) :
              /\ spec' = new
              /\ pdiff' = [i \in 1..Len(d) |-> d[p[i]]]
    /\ phase' = "update"
    /\ edits' = edits + 1
    /\ UNCHANGED <<cluster, status, pc, handler, locals, trace, result, faults, externals>>

\* another actor deletes a child
ExternalDeleteDeployment ==
    /\ UNCHANGED default_status
    /\ Disturbable
    /\ \E d \in deployments :
         /\ deployments' = deployments \ {d}
         /\ applied' = [applied EXCEPT ![d.metadata.name] = None]
    /\ externals' = externals + 1
    /\ UNCHANGED <<services, clock, parent, pc, handler, locals, trace, result, faults, edits>>

ExternalDeleteService ==
    /\ UNCHANGED default_status
    /\ Disturbable
    /\ \E s \in services :
         /\ services' = services \ {s}
         /\ applied' = [applied EXCEPT ![s.metadata.name] = None]
    /\ externals' = externals + 1
    /\ UNCHANGED <<deployments, clock, parent, pc, handler, locals, trace, result, faults,
                   edits>>

\* ------------------------------------ the podinfo build over ui sections
\* ui sections as the handler iterates them: key/value pairs in the dict's
\* order, keys distinct
UiKeys == {"color", "message", "Logo"}
UiValues == {"blue", "hi"}
UiDicts ==
    {u \in UNION {[1..n -> UiKeys \X UiValues] : n \in 0..MaxUiKeys} :
        \A i, j \in DOMAIN u : u[i][1] = u[j][1] => i = j}

EnvSpecs ==
    {SpecOf("v1", "absent", r) : r \in RedisChoices}
    \cup {[ui |-> u] @@ SpecOf("v1", "absent", r) : u \in UiDicts, r \in RedisChoices}

EnvInit ==
    /\ default_status = DEFAULT_STATUS
    /\ deployments = {}
    /\ services = {}
    /\ clock = 1
    /\ spec \in EnvSpecs
    /\ status = <<>>
    /\ phase = "create"
    /\ pdiff = <<>>
    /\ pc = "idle"
    /\ handler = "none"
    /\ diff = <<>>
    /\ new_status = None
    /\ name = ""
    /\ deploy_obj = None
    /\ svc_obj = None
    /\ deployment = Unbound
    /\ podinfo_status = None
    /\ trace = <<>>
    /\ result = NoResult
    /\ faults = 0
    /\ externals = 0
    /\ edits = 0
    /\ applied = [n \in {PODINFO_DEPLOYMENT_NAME, REDIS_DEPLOYMENT_NAME} |-> None]

\* on_create up to the point where both podinfo objects are built and adopted
EnvNext ==
    \/ on_create
    \/ create_deployment_and_service
    \/ adopt_deploy_obj
    \/ adopt_svc_obj

EnvSpec == EnvInit /\ [][EnvNext]_vars

\* ------------------------------ updates that edit keys of the ui section
\* ui sections that differ by single keys, a key named redis and a key that
\* only begins with redis among them
FieldUis ==
    { << <<"color", "blue">> >>,
      << <<"color", "blue">>, <<"redis", "hi">> >>,
      << <<"color", "hi">>, <<"redisHost", "hi">> >> }

FieldSpecs ==
    {SpecOf("v1", "absent", r) : r \in RedisChoices}
    \cup {[ui |-> u] @@ SpecOf("v1", "absent", r) : u \in FieldUis, r \in RedisChoices}

\* a parent whose spec is one of FieldSpecs, on a cluster that answers every
\* call without an injected error and where no other actor deletes anything
FieldInit ==
    /\ default_status = DEFAULT_STATUS
    /\ deployments = {}
    /\ services = {}
    /\ clock = 1
    /\ spec \in FieldSpecs
    /\ status = <<>>
    /\ phase = "create"
    /\ pdiff = <<>>
    /\ pc = "idle"
    /\ handler = "none"
    /\ diff = <<>>
    /\ new_status = None
    /\ name = ""
    /\ deploy_obj = None
    /\ svc_obj = None
    /\ deployment = Unbound
    /\ podinfo_status = None
    /\ trace = <<>>
    /\ result = NoResult
    /\ faults = MaxDisturbances
    /\ externals = 0
    /\ edits = 0
    /\ applied = [n \in {PODINFO_DEPLOYMENT_NAME, REDIS_DEPLOYMENT_NAME} |-> None]

\* the parent's user edits the spec within FieldSpecs
FieldEdit ==
    /\ UNCHANGED default_status
    /\ pc = "idle"
    /\ UNCHANGED applied
    /\ phase = "idle"
    /\ edits < MaxEdits
    /\ \E new \in FieldSpecs \ {spec} :
         LET d == KopfDiff(spec, new)
         IN \E p \in Permutations(1..Len(d)) :
              /\ spec' = new
              /\ pdiff' = [i \in 1..Len(d) |-> d[p[i]]]
    /\ phase' = "update"
    /\ edits' = edits + 1
    /\ UNCHANGED <<cluster, status, pc, handler, locals, trace, result, faults, externals>>

FieldNext ==
    \/ on_create
    \/ on_update
    \/ on_update_loop
    \/ get_deployment
    \/ create_deployment_and_service
    \/ adopt_deploy_obj
    \/ adopt_svc_obj
    \/ create_or_update_deployment
    \/ patch_deployment
    \/ create_or_update_service
    \/ patch_service
    \/ teardown_deployment
    \/ teardown_service
    \/ FieldEdit

FieldSpec == FieldInit /\ [][FieldNext]_vars

\* ------------------- two concurrent callers of one gateway function
\* Two reconciliation attempts call create_or_update_deployment (or
\* create_or_update_service) for the same name at the same time.  Here pc,
\* deploy_obj, svc_obj, deployment, trace and result hold one value per
\* caller, and handler names the gateway function both are in.
Callers == {1, 2}

\* the object a create sequence stored earlier, at the given clock value
Stored(body, at) ==
    [body EXCEPT !.metadata.uid = "uid-" \o ToString(at), !.metadata.creation_timestamp = at]

\* the namespace is empty, or holds the component as an earlier create sequence
\* from some spec left it; each caller brings the objects built from its spec
ConcurrentInit ==
    /\ default_status = DEFAULT_STATUS
    /\ name \in {PODINFO_DEPLOYMENT_NAME, REDIS_DEPLOYMENT_NAME}
    /\ handler \in {"create_or_update_deployment", "create_or_update_service"}
    /\ spec \in Specs
    /\ \E other \in Specs :
         /\ deploy_obj = [w \in Callers |->
                            Adopt(BuildDeployment(Args(name, IF w = 1 THEN spec ELSE other)))]
         /\ svc_obj = [w \in Callers |->
                         Adopt(BuildService(Args(name, IF w = 1 THEN spec ELSE other)))]
    /\ \E earlier \in {None} \cup Specs :
         IF earlier = None
         THEN /\ deployments = {}
              /\ services = {}
              /\ clock = 1
              /\ applied = [n \in {PODINFO_DEPLOYMENT_NAME, REDIS_DEPLOYMENT_NAME} |-> None]
         ELSE LET d == Adopt(BuildDeployment(Args(name, earlier)))
                  s == Adopt(BuildService(Args(name, earlier)))
              IN /\ deployments = {Stored(d, 1)}
                 /\ services = {Stored(s, 2)}
                 /\ clock = 3
                 /\ applied = [n \in {PODINFO_DEPLOYMENT_NAME, REDIS_DEPLOYMENT_NAME} |->
                                 IF n = name
                                 THEN [deploy_obj |-> d, svc_obj |-> s,
                                       uids |-> <<"uid-1">>, patched |-> <<FALSE>>]
                                 ELSE None]
    /\ pc = [w \in Callers |-> "create"]
    /\ deployment = [w \in Callers |-> Unbound]
    /\ trace = [w \in Callers |-> <<>>]
    /\ result = [w \in Callers |-> NoResult]
    /\ status = <<>>
    /\ phase = "idle"
    /\ pdiff = <<>>
    /\ diff = <<>>
    /\ new_status = None
    /\ podinfo_status = None
    /\ faults = MaxDisturbances
    /\ externals = 0
    /\ edits = 0

\* create_or_update_deployment, lines 112-118 and 122, run by caller w
concurrent_create_deployment(w) ==
    /\ UNCHANGED default_status
    /\ handler = "create_or_update_deployment"
    /\ pc[w] = "create"
    /\ \E code \in Answers(CreateCode(deployments, deploy_obj[w].metadata.name)) :
         LET fn == "create_or_update_deployment"
             tr == trace[w] \o << CallEvent(fn, name, deploy_obj[w]),
                                  ApiEvent(fn, "create_namespaced_deployment", "", NAMESPACE,
                                           deploy_obj[w], code) >>
         IN /\ CountFault(code)
            /\ IF code = 201
               THEN /\ deployments' = deployments \cup {Live(deploy_obj[w])}
                    /\ clock' = clock + 1
                    /\ deployment' = [deployment EXCEPT ![w] = Live(deploy_obj[w])]
                    /\ trace' = [trace EXCEPT
                                    ![w] = Append(tr, ReturnEvent(fn, Live(deploy_obj[w])))]
                    /\ result' = [result EXCEPT
                                     ![w] = [kind |-> "return", value |-> Live(deploy_obj[w])]]
                    /\ pc' = [pc EXCEPT ![w] = "done"]
               ELSE IF DeploymentConflict(code)
               THEN /\ trace' = [trace EXCEPT ![w] = tr]
                    /\ pc' = [pc EXCEPT ![w] = "patch"]
                    /\ UNCHANGED <<deployments, clock, deployment, result>>
               ELSE /\ trace' = [trace EXCEPT
                                    ![w] = Append(tr, RaiseEvent(fn, UnboundLocalError))]
                    /\ result' = [result EXCEPT
                                     ![w] = [kind |-> "raise", exc |-> UnboundLocalError]]
                    /\ pc' = [pc EXCEPT ![w] = "done"]
                    /\ UNCHANGED <<deployments, clock, deployment>>
    /\ UNCHANGED <<services, parent, handler, diff, new_status, name, deploy_obj, svc_obj,
                   podinfo_status, externals, edits, applied>>

\* create_or_update_deployment, lines 119-122, run by caller w
concurrent_patch_deployment(w) ==
    /\ UNCHANGED default_status
    /\ handler = "create_or_update_deployment"
    /\ pc[w] = "patch"
    /\ \E code \in Answers(ByNameCode(deployments, name)) :
         LET fn == "create_or_update_deployment"
             tr == Append(trace[w], ApiEvent(fn, "patch_namespaced_deployment", name,
                                             NAMESPACE, deploy_obj[w], code))
         IN /\ CountFault(code)
            /\ IF code = 200
               THEN LET old == TheObject(deployments, name)
                        new == PatchedDeployment(old, deploy_obj[w])
                    IN /\ deployments' = (deployments \ {old}) \cup {new}
                       /\ deployment' = [deployment EXCEPT ![w] = new]
                       /\ trace' = [trace EXCEPT ![w] = Append(tr, ReturnEvent(fn, new))]
                       /\ result' = [result EXCEPT ![w] = [kind |-> "return", value |-> new]]
               ELSE /\ trace' = [trace EXCEPT
                                    ![w] = Append(tr, RaiseEvent(fn, ApiException(code)))]
                    /\ result' = [result EXCEPT
                                     ![w] = [kind |-> "raise", exc |-> ApiException(code)]]
                    /\ UNCHANGED <<deployments, deployment>>
    /\ pc' = [pc EXCEPT ![w] = "done"]
    /\ UNCHANGED <<services, clock, parent, handler, diff, new_status, name, deploy_obj,
                   svc_obj, podinfo_status, externals, edits, applied>>

\* create_or_update_service, lines 142-146 and 150, run by caller w
concurrent_create_service(w) ==
    /\ UNCHANGED default_status
    /\ handler = "create_or_update_service"
    /\ pc[w] = "create"
    /\ \E code \in Answers(CreateCode(services, svc_obj[w].metadata.name)) :
         LET fn == "create_or_update_service"
             tr == trace[w] \o << CallEvent(fn, name, svc_obj[w]),
                                  ApiEvent(fn, "create_namespaced_service", "", NAMESPACE,
                                           svc_obj[w], code) >>
         IN /\ CountFault(code)
            /\ IF code = 201
               THEN /\ services' = services \cup {Live(svc_obj[w])}
                    /\ clock' = clock + 1
                    /\ trace' = [trace EXCEPT
                                    ![w] = Append(tr, ReturnEvent(fn, Live(svc_obj[w])))]
                    /\ result' = [result EXCEPT
                                     ![w] = [kind |-> "return", value |-> Live(svc_obj[w])]]
                    /\ pc' = [pc EXCEPT ![w] = "done"]
               ELSE IF ServiceConflict(code)
               THEN /\ trace' = [trace EXCEPT ![w] = tr]
                    /\ pc' = [pc EXCEPT ![w] = "patch"]
                    /\ UNCHANGED <<services, clock, result>>
               ELSE /\ trace' = [trace EXCEPT
                                    ![w] = Append(tr, RaiseEvent(fn, UnboundLocalError))]
                    /\ result' = [result EXCEPT
                                     ![w] = [kind |-> "raise", exc |-> UnboundLocalError]]
                    /\ pc' = [pc EXCEPT ![w] = "done"]
                    /\ UNCHANGED <<services, clock>>
    /\ UNCHANGED <<deployments, parent, handler, diff, new_status, name, deploy_obj, svc_obj,
                   deployment, podinfo_status, externals, edits, applied>>

\* create_or_update_service, lines 147-150, run by caller w
concurrent_patch_service(w) ==
    /\ UNCHANGED default_status
    /\ handler = "create_or_update_service"
    /\ pc[w] = "patch"
    /\ \E code \in Answers(ByNameCode(services, name)) :
         LET fn == "create_or_update_service"
             tr == Append(trace[w], ApiEvent(fn, "patch_namespaced_service", name,
                                             NAMESPACE, svc_obj[w], code))
         IN /\ CountFault(code)
            /\ IF code = 200
               THEN LET old == TheObject(services, name)
                        new == PatchedService(old, svc_obj[w])
                    IN /\ services' = (services \ {old}) \cup {new}
                       /\ trace' = [trace EXCEPT ![w] = Append(tr, ReturnEvent(fn, new))]
                       /\ result' = [result EXCEPT ![w] = [kind |-> "return", value |-> new]]
               ELSE /\ trace' = [trace EXCEPT
                                    ![w] = Append(tr, RaiseEvent(fn, ApiException(code)))]
                    /\ result' = [result EXCEPT
                                     ![w] = [kind |-> "raise", exc |-> ApiException(code)]]
                    /\ UNCHANGED services
    /\ pc' = [pc EXCEPT ![w] = "done"]
    /\ UNCHANGED <<deployments, clock, parent, handler, diff, new_status, name, deploy_obj,
                   svc_obj, deployment, podinfo_status, externals, edits, applied>>

ConcurrentNext ==
    \/ \E w \in Callers : concurrent_create_deployment(w)
    \/ \E w \in Callers : concurrent_patch_deployment(w)
    \/ \E w \in Callers : concurrent_create_service(w)
    \/ \E w \in Callers : concurrent_patch_service(w)

ConcurrentSpec == ConcurrentInit /\ [][ConcurrentNext]_vars

\* ---------------------------------------------------------------- Spec
Next ==
    \/ on_create
    \/ on_update
    \/ on_update_loop
    \/ get_deployment
    \/ create_deployment_and_service
    \/ adopt_deploy_obj
    \/ adopt_svc_obj
    \/ create_or_update_deployment
    \/ patch_deployment
    \/ create_or_update_service
    \/ patch_service
    \/ teardown_deployment
    \/ teardown_service
    \/ EditSpec
    \/ ExternalDeleteDeployment
    \/ ExternalDeleteService

Spec == Init /\ [][Next]_vars

\* ------------------------------------------------------ reading the trace
IsCall(i, fn) == trace[i].ev = "call" /\ trace[i].fn = fn
IsApi(i) == trace[i].ev = "api"
IsEnd(i, fn) == trace[i].ev \in {"return", "raise"} /\ trace[i].fn = fn

\* a gateway invocation that began at event i has ended
Complete(i) == \E k \in (i + 1)..Len(trace) : IsEnd(k, trace[i].fn)
\* the event that ends it
End(i) ==
    CHOOSE k \in (i + 1)..Len(trace) :
        IsEnd(k, trace[i].fn) /\ \A m \in (i + 1)..(k - 1) : ~IsEnd(m, trace[i].fn)

Verb(api) ==
    IF api \in {"create_namespaced_deployment", "create_namespaced_service"} THEN "create"
    ELSE IF api \in {"patch_namespaced_deployment", "patch_namespaced_service"} THEN "patch"
    ELSE IF api \in {"delete_namespaced_deployment", "delete_namespaced_service"} THEN "delete"
    ELSE "list"

\* the API calls of a complete invocation, as <<verb, answer>>, and how it ended
Steps(i) == [k \in 1..(End(i) - i - 1) |-> <<Verb(trace[i + k].api), trace[i + k].code>>]
Ending(i) == IF trace[End(i)].ev = "raise" THEN trace[End(i)].exc ELSE [type |-> "return"]

\* the object is the body as the cluster stores it on create
IsCreatedFrom(obj, body) ==
    /\ obj.metadata.uid # ""
    /\ [obj EXCEPT !.metadata.uid = "", !.metadata.creation_timestamp = 0] = body

\* the object of the cluster carries what the patch body asks for
CarriesPatch(obj, body) ==
    /\ obj.kind = body.kind
    /\ obj.metadata.uid # ""
    /\ obj.metadata.name = body.metadata.name
    /\ body.metadata.ownerReferences \subseteq obj.metadata.ownerReferences
    /\ IF body.kind = "Service"
       THEN obj.spec = body.spec
       ELSE /\ obj.spec.replicas = body.spec.replicas
            /\ obj.spec.template.containers[1].image = body.spec.template.containers[1].image
            /\ \A k \in 1..Len(body.spec.template.containers[1].env) :
                 \E m \in 1..Len(obj.spec.template.containers[1].env) :
                    obj.spec.template.containers[1].env[m]
                      = body.spec.template.containers[1].env[k]

\* the complete invocations of gateway function fn in the trace
Invocations(fn) == {i \in 1..Len(trace) : IsCall(i, fn) /\ Complete(i)}

\* the create-then-patch-on-conflict policy, read off the invocation that
\* began at event i: create first; on 201 return the created object with no
\* patch; on 409 exactly one patch by name with the same body and namespace,
\* whose result is returned (or whose own error is raised)
CreateOrPatch(i, createApi, patchApi, patchPc) ==
    LET c == trace[i]
        a == trace[i + 1]
    IN /\ a.ev = "api" /\ a.api = createApi
       /\ a.body = c.body /\ a.namespace = c.namespace
       /\ a.code = 201 =>
            /\ Len(trace) >= i + 2
            /\ trace[i + 2].ev = "return" /\ trace[i + 2].fn = c.fn
            /\ IsCreatedFrom(trace[i + 2].value, c.body)
       /\ a.code = Conflict =>
            /\ Len(trace) = i + 1 => pc = patchPc
            /\ Len(trace) > i + 1 =>
                 /\ Len(trace) >= i + 3
                 /\ trace[i + 2].ev = "api" /\ trace[i + 2].api = patchApi
                 /\ trace[i + 2].name = c.name
                 /\ trace[i + 2].namespace = c.namespace
                 /\ trace[i + 2].body = c.body
                 /\ IsEnd(i + 3, c.fn)
                 /\ trace[i + 2].code = 200 =>
                      /\ trace[i + 3].ev = "return"
                      /\ CarriesPatch(trace[i + 3].value, c.body)
                 /\ trace[i + 2].code # 200 =>
                      trace[i + 3] = RaiseEvent(c.fn, ApiException(trace[i + 2].code))
                 /\ ~(trace[i + 3].ev = "raise" /\ trace[i + 3].exc = ApiException(Conflict))

\* C1: create_or_update_deployment first attempts a create; a successful
\* create is returned and no patch is issued; a create answered 409 is followed
\* by exactly one patch by name with the same body in the same namespace, the
\* patched Deployment is returned, and the conflict never reaches the caller.
C1_DeploymentCreateThenPatch ==
    \A i \in 1..Len(trace) :
        IsCall(i, "create_or_update_deployment") =>
            CreateOrPatch(i, "create_namespaced_deployment", "patch_namespaced_deployment",
                          "patch_deployment")

\* a Deployment create was answered 409, the patch went through and the
\* patched Deployment was returned
C1_Witness ==
    \E i \in 1..Len(trace) :
        /\ IsCall(i, "create_or_update_deployment")
        /\ trace[i + 1].code = Conflict
        /\ Len(trace) >= i + 3
        /\ trace[i + 2].code = 200
        /\ trace[i + 3].ev = "return"

\* C2: create_or_update_service follows the same policy as
\* create_or_update_deployment: create, then patch by name with the same body
\* only on 409, returning the live Service; and a Service invocation that got
\* the same answers as a Deployment invocation took the same steps and ended
\* the same way.
C2_ServiceSamePolicy ==
    LET calls == {i \in 1..Len(trace) : trace[i].ev = "call"}
        services_calls == {j \in calls : trace[j].fn = "create_or_update_service"}
        services_invocations == {j \in services_calls : Complete(j)}
        deployments_invocations ==
            {i \in calls : trace[i].fn = "create_or_update_deployment" /\ Complete(i)}
    IN /\ \A j \in services_calls :
            CreateOrPatch(j, "create_namespaced_service", "patch_namespaced_service",
                          "patch_service")
       /\ \A i \in deployments_invocations :
            \A j \in services_invocations :
               trace[i + 1].code = trace[j + 1].code
               => LET si == Steps(i)
                      sj == Steps(j)
                  IN /\ Len(si) = Len(sj)
                     /\ (\A k \in 1..Len(si) : si[k][2] = sj[k][2])
                          => (si = sj /\ Ending(i) = Ending(j))

\* a Service create was answered 409 after a Deployment create was, and both
\* were patched
C2_Witness ==
    \E i \in Invocations("create_or_update_deployment"),
       j \in Invocations("create_or_update_service") :
        /\ Steps(i) = << <<"create", Conflict>>, <<"patch", 200>> >>
        /\ Steps(j) = Steps(i)
        /\ Ending(j) = [type |-> "return"]

\* C3: a create answered with an error other than 409 is followed by no patch,
\* and that cluster error itself leaves the gateway function and the handler.
C3_OtherCreateErrorPropagates ==
    \A i \in 1..Len(trace) :
        ( /\ IsApi(i)
          /\ Verb(trace[i].api) = "create"
          /\ trace[i].code \notin {201, Conflict} )
        => /\ Len(trace) = i + 1
           /\ trace[i + 1] = RaiseEvent(trace[i].fn, ApiException(trace[i].code))
           /\ pc = "idle"
           /\ result = [kind |-> "raise", exc |-> ApiException(trace[i].code)]

\* the handler took a step at position p (an external deletion leaves trace alone)
HandlerStep(p) == pc = p /\ trace' # trace
\* the API call of the step just taken, and what the gateway function did with it
StepApi == trace'[Len(trace') - 1]
StepEnd == trace'[Len(trace')]

\* C4: teardown_deployment and teardown_service called for a name that is
\* absent (the cluster answers 404) return normally, raise nothing and leave
\* the cluster as it was; called for a present object they delete it and
\* return the cluster's delete status.
C4_IdempotentDelete ==
    [][ /\ HandlerStep("teardown_deployment") =>
            /\ (~Exists(deployments, name) /\ StepApi.code = NotFoundStatus) =>
                 /\ StepEnd = ReturnEvent("teardown_deployment", None)
                 /\ result'.kind # "raise"
                 /\ pc' = "teardown_service"
                 /\ cluster' = cluster
            /\ (Exists(deployments, name) /\ StepApi.code = 200) =>
                 /\ StepEnd = ReturnEvent("teardown_deployment", V1Status)
                 /\ result'.kind # "raise"
                 /\ deployments' = deployments \ Named(deployments, name)
                 /\ ~Exists(deployments', name)
                 /\ services' = services
        /\ HandlerStep("teardown_service") =>
            /\ (~Exists(services, name) /\ StepApi.code = NotFoundStatus) =>
                 /\ StepEnd = ReturnEvent("teardown_service", None)
                 /\ result'.kind # "raise"
                 /\ pc' = "loop"
                 /\ cluster' = cluster
            /\ (Exists(services, name) /\ StepApi.code = 200) =>
                 /\ StepEnd = ReturnEvent("teardown_service", V1Status)
                 /\ result'.kind # "raise"
                 /\ services' = services \ Named(services, name)
                 /\ ~Exists(services', name)
                 /\ deployments' = deployments
      ]_vars

\* both teardowns ran for an absent redis and returned None, and the handler
\* returned
C4_Witness ==
    /\ result.kind = "return"
    /\ \E i, j \in 1..Len(trace) :
         /\ IsApi(i) /\ trace[i].api = "delete_namespaced_deployment"
         /\ trace[i].code = NotFoundStatus
         /\ trace[i + 1] = ReturnEvent("teardown_deployment", None)
         /\ IsApi(j) /\ trace[j].api = "delete_namespaced_service"
         /\ trace[j].code = NotFoundStatus
         /\ trace[j + 1] = ReturnEvent("teardown_service", None)

\* C5: a delete answered with an error other than 404 leaves teardown_deployment
\* or teardown_service as that error, after exactly one delete attempt.
C5_DeleteErrorPropagates ==
    \A i \in 1..Len(trace) :
        ( /\ IsApi(i)
          /\ trace[i].code \notin {200, NotFoundStatus}
          /\ Verb(trace[i].api) = "delete" )
        => /\ IsCall(i - 1, trace[i].fn)
           /\ Len(trace) = i + 1
           /\ trace[i + 1] = RaiseEvent(trace[i].fn, ApiException(trace[i].code))
           /\ pc = "idle"
           /\ result = [kind |-> "raise", exc |-> ApiException(trace[i].code)]

\* the Service delete was answered 500 and the handler ended with that error
C5_Witness ==
    /\ result = [kind |-> "raise", exc |-> ApiException(ServerError)]
    /\ Len(trace) >= 3
    /\ IsApi(Len(trace) - 1)
    /\ trace[Len(trace) - 1].api = "delete_namespaced_service"
    /\ trace[Len(trace) - 1].code = ServerError

\* C6: get_deployment(name, namespace) returns a listed Deployment named name
\* whenever the namespace lists one, returns None without raising whenever none
\* has that name, and never changes the cluster.
C6_GetDeployment ==
    [][ HandlerStep("get_deployment") =>
          /\ cluster' = cluster
          /\ StepApi.code = 200 =>
               /\ StepEnd.ev = "return" /\ StepEnd.fn = "get_deployment"
               /\ result'.kind # "raise"
               /\ Exists(deployments, name) =>
                    /\ StepEnd.value \in deployments
                    /\ StepEnd.value.metadata.name = name
               /\ ~Exists(deployments, name) => StepEnd.value = None
      ]_vars

\* get_deployment found redis in a namespace that also lists podinfo
C6_Witness ==
    /\ Exists(deployments, PODINFO_DEPLOYMENT_NAME)
    /\ \E i \in 1..Len(trace) :
         /\ trace[i].ev = "return" /\ trace[i].fn = "get_deployment"
         /\ trace[i].value # None
         /\ trace[i].value.metadata.name = REDIS_DEPLOYMENT_NAME
         /\ trace[i].value \in deployments

\* the last gateway invocation the trace begins
LastCall ==
    CHOOSE i \in 1..Len(trace) :
        trace[i].ev = "call" /\ \A j \in (i + 1)..Len(trace) : trace[j].ev # "call"

\* C7: the create sequence of a component run twice in a row with an identical
\* spec raises no error on the second run, the second run patches, the cluster
\* then holds exactly one Deployment and one Service of that name, and both
\* runs report the same Deployment uid.
C7_IdempotentCreate ==
    /\ \A n \in DOMAIN applied :
         (applied[n] # None /\ Len(applied[n].uids) >= 2) =>
            /\ \A k \in 2..Len(applied[n].uids) :
                 /\ applied[n].uids[k] = applied[n].uids[1]
                 /\ applied[n].patched[k]
            /\ Cardinality(Named(deployments, n)) = 1
            /\ Cardinality(Named(services, n)) = 1
    /\ ~( /\ pc = "idle" /\ result.kind = "raise"
          /\ \E i \in 1..Len(trace) : trace[i].ev = "call"
          /\ trace[LastCall].fn \in {"create_or_update_deployment", "create_or_update_service"}
          /\ trace[Len(trace) - 1].code # ServerError
          /\ applied[trace[LastCall].name] # None
          /\ trace[LastCall].body \in {applied[trace[LastCall].name].deploy_obj,
                                       applied[trace[LastCall].name].svc_obj} )

\* podinfo's create sequence completed twice in a row with the same objects
C7_Witness ==
    /\ applied[PODINFO_DEPLOYMENT_NAME] # None
    /\ Len(applied[PODINFO_DEPLOYMENT_NAME].uids) >= 2
    /\ ~applied[PODINFO_DEPLOYMENT_NAME].patched[1]

\* the events of the create sequence that the gateway call at event i belongs to
SameSequence(k, i) ==
    /\ k < i
    /\ \A m \in k..i : ~(trace[m].ev = "return" /\ trace[m].fn = "create_deployment_and_service")

\* C8: every Deployment and Service handed to a cluster create or patch call
\* has been adopted before the first gateway call that receives it, so every
\* child the reconciler created or patched carries the parent's owner reference.
C8_OwnerAdoption ==
    /\ LET adoptions == {k \in 1..Len(trace) : trace[k].ev = "adopt"}
       IN \A i \in 1..Len(trace) :
            LET e == trace[i]
                gateway == e.fn \in {"create_or_update_deployment", "create_or_update_service"}
            IN IF e.ev = "api"
               THEN Verb(e.api) \in {"create", "patch"} =>
                       PARENT_UID \in e.body.metadata.ownerReferences
               ELSE IF e.ev = "call"
               THEN gateway =>
                       \E k \in adoptions :
                          /\ trace[k].kind = e.body.kind
                          /\ trace[k].name = e.body.metadata.name
                          /\ SameSequence(k, i)
               ELSE IF e.ev = "return"
               THEN gateway => PARENT_UID \in e.value.metadata.ownerReferences
               ELSE TRUE
    /\ \A o \in deployments \cup services : PARENT_UID \in o.metadata.ownerReferences

\* on_update re-applied podinfo: both objects were patched and carry the owner
C8_Witness ==
    /\ handler = "on_update"
    /\ \E i, j \in 1..Len(trace) :
         /\ IsApi(i) /\ trace[i].api = "patch_namespaced_deployment" /\ trace[i].code = 200
         /\ IsApi(j) /\ trace[j].api = "patch_namespaced_service" /\ trace[j].code = 200
    /\ \A o \in deployments \cup services : PARENT_UID \in o.metadata.ownerReferences
    /\ Cardinality(deployments \cup services) = 4

\* the parent's spec asks for redis
RedisFlag == "redis" \in DOMAIN spec /\ spec.redis.enabled = TRUE

\* on_create has returned and the spec it ran with is still the parent's
OnCreateReturned == handler = "on_create" /\ result.kind = "return" /\ phase = "idle"

\* the handler's trace holds a successful create or patch of the object
AppliedInTrace(kind, n) ==
    \E i \in 1..Len(trace) :
        /\ IsApi(i) /\ Verb(trace[i].api) \in {"create", "patch"}
        /\ trace[i].body.kind = kind /\ trace[i].body.metadata.name = n
        /\ trace[i].code \in {200, 201}

\* the Deployments the gateway returned to the handler for component n
ReturnedDeployments(n) ==
    {trace[i].value : i \in {k \in 1..Len(trace) :
        /\ trace[k].ev = "return" /\ trace[k].fn = "create_or_update_deployment"
        /\ trace[k].value.metadata.name = n}}

\* C9: on_create with redis disabled or absent issues no create or patch for a
\* redis Deployment or Service and returns the redis status DEFAULT_STATUS;
\* with redis enabled it applies the redis Deployment and Service and returns
\* the non-empty uid of the live redis Deployment.
C9_ConditionalRedis ==
    OnCreateReturned =>
        IF RedisFlag
        THEN /\ AppliedInTrace("Deployment", REDIS_DEPLOYMENT_NAME)
             /\ AppliedInTrace("Service", REDIS_DEPLOYMENT_NAME)
             /\ result.value.children.redis.uid # ""
             /\ \E d \in ReturnedDeployments(REDIS_DEPLOYMENT_NAME) :
                  result.value.children.redis.uid = d.metadata.uid
             /\ externals = 0 =>
                  \E d \in deployments :
                     /\ d.metadata.name = REDIS_DEPLOYMENT_NAME
                     /\ d.metadata.uid = result.value.children.redis.uid
        ELSE /\ \A i \in 1..Len(trace) :
                  (IsApi(i) /\ Verb(trace[i].api) \in {"create", "patch"}) =>
                      trace[i].body.metadata.name # REDIS_DEPLOYMENT_NAME
             /\ result.value.children.redis = [created_on |-> "Not Created", uid |-> ""]

\* on_create returned for a spec with redis enabled
C9_Witness ==
    /\ OnCreateReturned
    /\ RedisFlag
    /\ result.value.children.redis.uid # ""
    /\ Exists(deployments, REDIS_DEPLOYMENT_NAME)

\* C10: on_create always applies the podinfo Deployment and Service and returns
\* exactly {children: {redis, podInfo}}, podInfo's created_on and uid being
\* those of the live podinfo Deployment the cluster returned.
C10_OnCreateResult ==
    OnCreateReturned =>
        /\ AppliedInTrace("Deployment", PODINFO_DEPLOYMENT_NAME)
        /\ AppliedInTrace("Service", PODINFO_DEPLOYMENT_NAME)
        /\ DOMAIN result.value = {"children"}
        /\ DOMAIN result.value.children = {"redis", "podInfo"}
        /\ DOMAIN result.value.children.podInfo = {"created_on", "uid"}
        /\ DOMAIN result.value.children.redis = {"created_on", "uid"}
        /\ result.value.children.podInfo.uid # ""
        /\ \E d \in ReturnedDeployments(PODINFO_DEPLOYMENT_NAME) :
             /\ result.value.children.podInfo.uid = d.metadata.uid
             /\ result.value.children.podInfo.created_on
                  = StrfTime(d.metadata.creation_timestamp)
        /\ status.on_create = result.value

\* on_create returned for a spec with redis disabled: podinfo alone was applied
C10_Witness ==
    /\ OnCreateReturned
    /\ "redis" \in DOMAIN spec /\ ~spec.redis.enabled
    /\ AppliedInTrace("Deployment", PODINFO_DEPLOYMENT_NAME)
    /\ result.value.children.podInfo.uid # ""
    /\ deployments # {} /\ \A d \in deployments : d.metadata.name = PODINFO_DEPLOYMENT_NAME

\* ------------------------------------------------------ on_update claims
\* the lookups of component n that have returned, as indices of their return
Lookups(n) ==
    {i \in 3..Len(trace) :
        /\ trace[i].ev = "return" /\ trace[i].fn = "get_deployment"
        /\ trace[i - 2].ev = "call" /\ trace[i - 2].name = n}

\* the API calls of the trace that concern an object named n
ApiCallsOn(n) ==
    {j \in 1..Len(trace) :
        /\ trace[j].ev = "api"
        /\ \/ trace[j].name = n
           \/ (trace[j].body # None /\ trace[j].body.metadata.name = n)}

\* the create sequences of component n that have returned, as indices of the
\* return of create_deployment_and_service
SequenceReturns(n) ==
    {k \in 2..Len(trace) :
        /\ trace[k].ev = "return" /\ trace[k].fn = "create_deployment_and_service"
        /\ trace[k - 1].value.metadata.name = n}

OnUpdateReturned == handler = "on_update" /\ pc = "idle" /\ result.kind = "return"

\* C11: an on_update that looked redis up, found no Deployment of that name and
\* returned has created the redis Deployment (its create was answered 201),
\* has applied the redis Service (created, or patched had it been there), and
\* returns as redis status the created_on and uid of the Deployment the cluster
\* returned, which is live unless another actor deleted it since.
C11_EnableAfterCreate ==
    (OnUpdateReturned /\ \E i \in Lookups("redis") : trace[i].value = None) =>
        /\ \E j \in ApiCallsOn("redis") :
             /\ trace[j].api = "create_namespaced_deployment" /\ trace[j].code = 201
             /\ trace[j + 1].ev = "return"
             /\ result.value.redis =
                  [created_on |-> "ts-" \o ToString(trace[j + 1].value.metadata.creation_timestamp),
                   uid |-> trace[j + 1].value.metadata.uid]
             /\ result.value.redis.uid # ""
             /\ externals = 0 => trace[j + 1].value \in deployments
        /\ \E j \in ApiCallsOn("redis") :
             /\ trace[j].body.kind = "Service"
             /\ \/ trace[j].api = "create_namespaced_service" /\ trace[j].code = 201
                \/ trace[j].api = "patch_namespaced_service" /\ trace[j].code = 200
        /\ externals = 0 => \E s \in services : s.metadata.name = "redis"

\* redis was disabled at Create, the update enabled it, and both redis objects
\* were created
C11_Witness ==
    /\ OnUpdateReturned
    /\ status.on_create.children.redis = [created_on |-> "Not Created", uid |-> ""]
    /\ \E i \in Lookups("redis") : trace[i].value = None
    /\ \E j \in ApiCallsOn("redis") :
         trace[j].api = "create_namespaced_service" /\ trace[j].code = 201
    /\ \E d \in deployments : d.metadata.name = "redis" /\ d.metadata.uid = result.value.redis.uid
    /\ \E s \in services : s.metadata.name = "redis"

\* C12: an on_update whose enabling entry found a Deployment named redis issues
\* no create, patch or delete for redis, and the redis status it carries (and
\* returns) is the one carried over from status.on_create.children.
C12_NoDuplicateCreate ==
    (handler = "on_update" /\ \E i \in Lookups("redis") : trace[i].value # None) =>
        /\ \A j \in ApiCallsOn("redis") : Verb(trace[j].api) = "list"
        /\ \A j \in 1..Len(trace) : trace[j].ev = "adopt" => trace[j].name # "redis"
        /\ pc # "idle" => new_status.redis = status.on_create.children.redis
        /\ OnUpdateReturned => result.value.redis = status.on_create.children.redis

\* the enabling entry was processed while redis existed, and the handler returned
C12_Witness ==
    /\ OnUpdateReturned
    /\ \E i \in Lookups("redis") :
         /\ trace[i].value \in deployments
         /\ trace[i].value.metadata.name = "redis"
    /\ result.value.redis = status.on_create.children.redis

\* the diff entry e is redis-related without being the enabling transition
DisablingEntry(e) ==
    /\ \E k \in 1..Len(e.field) : e.field[k] = "redis"
    /\ ~(e.field = <<"spec", "redis", "enabled">> /\ e.new = TRUE)

\* C13: for every redis-related diff entry that is not the enabling transition
\* on_update goes on to delete the redis Deployment; a Deployment delete that
\* was answered 200 or 404 is followed by the delete of the redis Service; a
\* Service delete answered 200 or 404 raises nothing, and after it neither the
\* redis Deployment nor the redis Service exists.
C13_DisableTearsDown ==
    [][ /\ (pc = "loop" /\ diff # <<>> /\ pc' # pc /\ DisablingEntry(Head(diff))) =>
              /\ pc' = "teardown_deployment"
              /\ name' = "redis"
              /\ trace' = trace
        /\ HandlerStep("teardown_deployment") =>
              /\ trace'[Len(trace) + 1].ev = "call"
              /\ trace'[Len(trace) + 1].fn = "teardown_deployment"
              /\ trace'[Len(trace) + 1].name = "redis"
              /\ StepApi.api = "delete_namespaced_deployment" /\ StepApi.name = "redis"
              /\ StepApi.code \in {200, 404} =>
                   /\ StepEnd.ev = "return"
                   /\ pc' = "teardown_service"
                   /\ name' = "redis"
                   /\ ~\E d \in deployments' : d.metadata.name = "redis"
        /\ HandlerStep("teardown_service") =>
              /\ trace'[Len(trace) + 1].ev = "call"
              /\ trace'[Len(trace) + 1].fn = "teardown_service"
              /\ trace'[Len(trace) + 1].name = "redis"
              /\ StepApi.api = "delete_namespaced_service" /\ StepApi.name = "redis"
              /\ StepApi.code \in {200, 404} =>
                   /\ StepEnd.ev = "return"
                   /\ result'.kind # "raise"
                   /\ ~\E d \in deployments' : d.metadata.name = "redis"
                   /\ ~\E s \in services' : s.metadata.name = "redis"
      ]_vars

\* an update disabled redis: both live redis objects were deleted, in order
C13_Witness ==
    /\ OnUpdateReturned
    /\ \E i, j \in ApiCallsOn("redis") :
         /\ i < j
         /\ trace[i].api = "delete_namespaced_deployment" /\ trace[i].code = 200
         /\ trace[j].api = "delete_namespaced_service" /\ trace[j].code = 200
    /\ ~\E o \in deployments \cup services : o.metadata.name = "redis"
    /\ status.on_create.children.redis.uid # ""

\* C14: a lookup of podinfo for a non-redis diff entry that finds no Deployment
\* named podinfo ends the entry: the handler moves on to the next entry with
\* no further call, the cluster is as it was and the carried podInfo status is
\* unchanged.
C14_PodinfoUpdateGuard ==
    [][ ( /\ HandlerStep("get_deployment")
          /\ name = "podinfo"
          /\ StepApi.code = 200
          /\ ~\E d \in deployments : d.metadata.name = "podinfo" ) =>
            /\ StepEnd = [ev |-> "return", fn |-> "get_deployment", value |-> None]
            /\ Len(trace') = Len(trace) + 3
            /\ cluster' = cluster
            /\ new_status' = new_status
            /\ diff' = Tail(diff)
            /\ pc' = "loop"
      ]_vars

\* on_update skipped a non-redis entry because podinfo was gone, and returned
\* the carried-over podInfo status
C14_Witness ==
    /\ OnUpdateReturned
    /\ \E i \in Lookups("podinfo") : trace[i].value = None
    /\ ~\E d \in deployments : d.metadata.name = "podinfo"
    /\ \A j \in ApiCallsOn("podinfo") : Verb(trace[j].api) = "list"
    /\ result.value.podInfo = status.on_create.children.podInfo

\* C15: a successful on_create for a spec with redis enabled, no other actor
\* having deleted anything, leaves exactly two Deployments (podinfo with the
\* spec's replica count, redis with one replica) and exactly two Services
\* (podinfo, redis), all four carrying the parent's owner reference, and
\* returns a non-empty uid for both children.
C15_CreateWithRedis ==
    (OnCreateReturned /\ RedisFlag /\ externals = 0) =>
        /\ Cardinality(deployments) = 2
        /\ Cardinality(services) = 2
        /\ \E p, r \in deployments :
             /\ p.metadata.name = "podinfo" /\ p.spec.replicas = spec.replicaCount
             /\ r.metadata.name = "redis" /\ r.spec.replicas = 1
             /\ p.kind = "Deployment" /\ r.kind = "Deployment"
        /\ {s.metadata.name : s \in services} = {"podinfo", "redis"}
        /\ \A s \in services : s.kind = "Service"
        /\ \A o \in deployments \cup services : "parent-uid" \in o.metadata.ownerReferences
        /\ result.value.children.redis.uid # ""
        /\ result.value.children.podInfo.uid # ""
        /\ result.value.children.redis.uid # result.value.children.podInfo.uid

\* on_create succeeded at the first attempt for a spec with redis enabled
C15_Witness ==
    /\ OnCreateReturned /\ RedisFlag
    /\ externals = 0 /\ faults = 0
    /\ Cardinality(deployments) = 2 /\ Cardinality(services) = 2
    /\ spec.replicaCount # 1

\* the environment variable name the claim expects for a ui key
ExpectedUiName(k) ==
    CASE k = "color" -> "PODINFO_UI_COLOR"
      [] k = "message" -> "PODINFO_UI_MESSAGE"
      [] k = "Logo" -> "PODINFO_UI_LOGO"

\* C16: the environment of every podinfo Deployment built starts with
\* PODINFO_CACHE_SERVER = tcp://redis:6379, whatever the redis flag, followed by
\* exactly one variable per key of spec.ui, in spec.ui's order, named
\* PODINFO_UI_<uppercased key> and holding the key's value; with no ui section
\* it is that single variable.
C16_EnvironmentConstruction ==
    (deploy_obj # None /\ name = "podinfo") =>
        LET env == deploy_obj.spec.template.containers[1].env
            ui == IF "ui" \in DOMAIN spec THEN spec.ui ELSE <<>>
        IN /\ Len(env) = 1 + Len(ui)
           /\ env[1] = [name |-> "PODINFO_CACHE_SERVER", value |-> "tcp://redis:6379"]
           /\ \A k \in 1..Len(ui) :
                env[k + 1] = [name |-> ExpectedUiName(ui[k][1]), value |-> ui[k][2]]

\* podinfo was built for a ui section whose keys are not in alphabetical order,
\* one of them in mixed case, with redis disabled
C16_Witness ==
    /\ deploy_obj # None /\ name = "podinfo"
    /\ "ui" \in DOMAIN spec
    /\ Len(spec.ui) = 2
    /\ spec.ui[1][1] = "message" /\ spec.ui[2][1] = "Logo"
    /\ "redis" \in DOMAIN spec /\ ~spec.redis.enabled
    /\ Len(deploy_obj.spec.template.containers[1].env) = 3

\* on_create has ended with an exception
OnCreateRaised == handler = "on_create" /\ pc = "idle" /\ result.kind = "raise"

\* C17: on_create deletes nothing; when it fails after podinfo's create
\* sequence returned, the podinfo Deployment and Service are still in the
\* cluster; an attempt fails only on a cluster error of its own (or on a patch
\* whose object another actor just deleted), so a retry the cluster does not
\* fail succeeds; and a retry that succeeded for a spec with redis enabled
\* leaves podinfo's and redis's Deployments and Services all present.
C17_NoRollbackRetryConverges ==
    /\ handler = "on_create" =>
          \A j \in 1..Len(trace) : trace[j].ev = "api" => Verb(trace[j].api) # "delete"
    /\ (OnCreateRaised /\ externals = 0) =>
          \A k \in SequenceReturns("podinfo") :
             /\ \E d \in deployments :
                  d.metadata.name = "podinfo" /\ d.metadata.uid = trace[k].value.uid
             /\ \E s \in services : s.metadata.name = "podinfo"
    /\ OnCreateRaised =>
          /\ Len(trace) >= 2
          /\ trace[Len(trace) - 1].ev = "api"
          /\ \/ trace[Len(trace) - 1].code = ServerError
             \/ /\ Verb(trace[Len(trace) - 1].api) = "patch"
                /\ trace[Len(trace) - 1].code = NotFoundStatus
                /\ externals > 0
    /\ (OnCreateReturned /\ faults > 0 /\ edits = 0 /\ externals = 0) =>
          /\ \E d \in deployments : d.metadata.name = "podinfo"
          /\ \E s \in services : s.metadata.name = "podinfo"
          /\ RedisFlag =>
               /\ \E d \in deployments : d.metadata.name = "redis"
               /\ \E s \in services : s.metadata.name = "redis"
               /\ Cardinality(deployments) = 2 /\ Cardinality(services) = 2

\* podinfo was applied, a redis call failed, and the retry patched podinfo,
\* applied redis and returned
C17_Witness ==
    /\ OnCreateReturned /\ RedisFlag
    /\ faults = 1 /\ edits = 0 /\ externals = 0
    /\ applied["podinfo"] # None
    /\ Len(applied["podinfo"].uids) = 2
    /\ applied["podinfo"].patched[2]
    /\ Cardinality(deployments) = 2 /\ Cardinality(services) = 2

\* the last create sequence of component n that returned in this handler run
LastSequenceReturn(n) ==
    CHOOSE k \in SequenceReturns(n) : \A m \in SequenceReturns(n) : m <= k

\* the entry the update must return for component n under status key key
MergedEntry(n, key) ==
    IF SequenceReturns(n) = {}
    THEN status.on_create.children[key]
    ELSE trace[LastSequenceReturn(n)].value

\* C18: the map on_update returns is status.on_create.children with the redis
\* entry replaced by the metadata of the redis create sequence if one ran in
\* this update, the podInfo entry replaced by that of the podinfo re-apply if
\* one ran, and every other entry as carried over; a teardown changes nothing.
C18_UpdateStatusMerge ==
    OnUpdateReturned =>
        /\ DOMAIN result.value = DOMAIN status.on_create.children
        /\ result.value.redis = MergedEntry("redis", "redis")
        /\ result.value.podInfo = MergedEntry("podinfo", "podInfo")
        /\ status.on_update = result.value

\* an update re-applied podinfo and tore redis down: podInfo was replaced, the
\* redis entry still is the one recorded at Create
C18_Witness ==
    /\ OnUpdateReturned
    /\ SequenceReturns("podinfo") # {}
    /\ SequenceReturns("redis") = {}
    /\ \E j \in ApiCallsOn("redis") :
         trace[j].api = "delete_namespaced_deployment" /\ trace[j].code = 200
    /\ result.value.redis = status.on_create.children.redis
    /\ result.value.redis.uid # ""
    /\ result.value.podInfo = trace[LastSequenceReturn("podinfo")].value

\* a podinfo create sequence of on_update has just returned, nothing having
\* been deleted by another actor
ReappliedPodinfo ==
    /\ handler = "on_update" /\ externals = 0
    /\ Len(trace) >= 2
    /\ Len(trace) \in SequenceReturns("podinfo")

\* the environment the current spec asks for
SpecEnvironment ==
    LET ui == IF "ui" \in DOMAIN spec THEN spec.ui ELSE <<>>
    IN << [name |-> "PODINFO_CACHE_SERVER", value |-> "tcp://redis:6379"] >>
       \o [k \in 1..Len(ui) |-> [name |-> ExpectedUiName(ui[k][1]), value |-> ui[k][2]]]

\* C19: once on_update has re-applied podinfo, both objects having been built
\* from the current spec, adopted and create-or-updated, the live podinfo
\* Deployment's image, replica count and environment are those derived from
\* the current spec, and the podInfo status is the live Deployment's
\* created_on and uid.
C19_PodinfoReapply ==
    ReappliedPodinfo =>
        /\ \E i, j \in 1..Len(trace) :
             /\ trace[i] = [ev |-> "adopt", kind |-> "Deployment", name |-> "podinfo"]
             /\ trace[j] = [ev |-> "adopt", kind |-> "Service", name |-> "podinfo"]
        /\ \E d \in deployments :
             /\ d.metadata.name = "podinfo"
             /\ d.spec.template.containers[1].image
                  = spec.image.repository \o ":" \o spec.image.tag
             /\ d.spec.replicas = spec.replicaCount
             /\ d.spec.template.containers[1].env = SpecEnvironment
             /\ (IF pc = "idle" THEN result.value.podInfo ELSE new_status.podInfo) =
                  [created_on |-> "ts-" \o ToString(d.metadata.creation_timestamp),
                   uid |-> d.metadata.uid]

\* C20: no create call that on_update issues for the podinfo Deployment or the
\* podinfo Service is answered 201, whatever other actors delete meanwhile:
\* on_update only ever patches podinfo's objects.
C20_UpdateNeverCreatesPodinfo ==
    handler = "on_update" =>
        \A j \in ApiCallsOn("podinfo") :
            Verb(trace[j].api) = "create" => trace[j].code # 201

\* ------------------------------------------------- the loop over the diff
\* the branch of the loop body a diff entry selects: the gateway function
\* called first and the component it is called for
EntryBranch(e) ==
    IF \E k \in 1..Len(e.field) : e.field[k] = "redis"
    THEN IF e.field = <<"spec", "redis", "enabled">> /\ e.new = TRUE
         THEN <<"get_deployment", "redis">>
         ELSE <<"teardown_deployment", "redis">>
    ELSE <<"get_deployment", "podinfo">>

IsEntryStart(e) == e.ev = "call" /\ e.fn \in {"get_deployment", "teardown_deployment"}

\* the entries on_update has begun on, in order, as <<function, component>>
EntryStarts ==
    LET starts == SelectSeq(trace, IsEntryStart)
    IN [k \in 1..Len(starts) |-> <<starts[k].fn, starts[k].name>>]

\* the entries begun are the first entries of the event's diff, one start per
\* entry and in the diff's order, and the entries left are the rest of it
EntriesInOrder ==
    /\ (handler = "on_update" /\ pc # "idle") =>
          LET done == Len(pdiff) - Len(diff)
          IN /\ done >= 0
             /\ diff = SubSeq(pdiff, done + 1, Len(pdiff))
             /\ Len(EntryStarts) \in {done, done + 1}
             /\ Len(EntryStarts) <= Len(pdiff)
             /\ pc \in {"loop", "get_deployment", "teardown_deployment"} =>
                    Len(EntryStarts) = done
             /\ \A k \in 1..Len(EntryStarts) : EntryStarts[k] = EntryBranch(pdiff[k])
    /\ (OnUpdateReturned /\ phase = "idle") =>
          /\ Len(EntryStarts) = Len(pdiff)
          /\ \A k \in 1..Len(pdiff) : EntryStarts[k] = EntryBranch(pdiff[k])

\* the loop's steps: the branch is the one the entry at hand selects, and a
\* lookup answers from the Deployments the cluster holds at that step
EntrySteps ==
    /\ (pc = "loop" /\ diff # <<>> /\ pc' # pc) =>
          /\ pc' = EntryBranch(Head(diff))[1]
          /\ name' = EntryBranch(Head(diff))[2]
          /\ diff' = diff /\ trace' = trace /\ cluster' = cluster
    /\ (pc = "loop" /\ diff = <<>> /\ pc' # pc) =>
          /\ pc' = "idle" /\ result'.kind = "return" /\ trace' = trace
    /\ (HandlerStep("get_deployment") /\ StepApi.code = 200) =>
          LET present == {d \in deployments : d.metadata.name = name}
          IN /\ trace'[Len(trace) + 1] = CallEvent("get_deployment", name, None)
             /\ StepApi.api = "list_namespaced_deployment"
             /\ StepEnd.ev = "return"
             /\ IF present = {} THEN StepEnd.value = None ELSE StepEnd.value \in present
             /\ IF (name = "redis") = (present = {})
                THEN pc' = "build" /\ diff' = diff
                ELSE pc' = "loop" /\ diff' = Tail(diff)

\* C21: on_update begins on every entry of the diff exactly once and in the
\* diff's order; the branch taken for an entry is the one its field path and
\* new value select; whether the create sequence runs is decided by a lookup
\* made for that entry, answered from the cluster as it is at that moment.
C21_EntriesIndependent == []EntriesInOrder /\ [][EntrySteps]_vars

\* an update looked podinfo up for two entries: the first lookup found it,
\* another actor deleted it, the second lookup found nothing and skipped
C21_Witness ==
    /\ OnUpdateReturned /\ phase = "idle"
    /\ Len(pdiff) >= 2
    /\ \E i, j \in Lookups("podinfo") :
         /\ i < j
         /\ trace[i].value # None
         /\ trace[j].value = None

\* the events of the trace that concern component n: its adoptions and the
\* gateway calls and API calls made for it
EventsOn(n) ==
    {j \in 1..Len(trace) :
        \/ trace[j].ev = "adopt" /\ trace[j].name = n
        \/ trace[j].ev = "call" /\ trace[j].name = n
        \/ /\ trace[j].ev = "api"
           /\ \/ trace[j].name = n
              \/ (trace[j].body # None /\ trace[j].body.metadata.name = n)}

\* C22: one reconciliation is sequential. A Service gateway call directly
\* follows the return of the Deployment gateway call of the same component
\* with a live Deployment, so the Service call is made only after a successful
\* Deployment call; nothing follows an exception; in on_create every redis
\* event comes after podinfo's create sequence has returned, every podinfo
\* call having succeeded, so no redis call is made once a podinfo call failed.
C22_StrictlySequential ==
    /\ \A j \in 1..Len(trace) :
         IF trace[j].ev = "call"
         THEN trace[j].fn = "create_or_update_service" =>
                 /\ j > 1
                 /\ trace[j - 1].ev = "return"
                 /\ trace[j - 1].fn = "create_or_update_deployment"
                 /\ trace[j - 1].value.kind = "Deployment"
                 /\ trace[j - 1].value.metadata.name = trace[j].name
                 /\ trace[j - 1].value.metadata.uid # ""
                 /\ trace[j - 2].ev = "api" /\ trace[j - 2].code \in {200, 201}
                 /\ trace[j - 2].body.kind = "Deployment"
                 /\ trace[j - 2].body.metadata.name = trace[j].name
         ELSE trace[j].ev = "raise" => (j = Len(trace) /\ pc = "idle")
    /\ handler = "on_create" =>
         LET redis_events == EventsOn("redis")
         IN /\ redis_events # {} =>
                 \E k \in SequenceReturns("podinfo") :
                    /\ \A j \in redis_events : k < j
                    /\ \A i \in EventsOn("podinfo") : i < k
            /\ (redis_events # {} \/ (pc = "build" /\ name = "redis")) =>
                 \A i \in ApiCallsOn("podinfo") : trace[i].code \in {200, 201, Conflict}
            /\ (OnCreateRaised /\ \E i \in ApiCallsOn("podinfo") : i = Len(trace) - 1) =>
                 redis_events = {}

\* on_create for a spec with redis enabled made its four calls in order:
\* podinfo Deployment, podinfo Service, redis Deployment, redis Service
C22_Witness ==
    /\ OnCreateReturned /\ RedisFlag
    /\ \E i, j \in ApiCallsOn("podinfo"), k, l \in ApiCallsOn("redis") :
         /\ i < j /\ j < k /\ k < l
         /\ trace[i].body.kind = "Deployment" /\ trace[j].body.kind = "Service"
         /\ trace[k].body.kind = "Deployment" /\ trace[l].body.kind = "Service"

\* C23: an entry is treated as redis-related exactly when one element of its
\* field path is "redis", wherever it stands: the entry is then handled for
\* redis and, unless it is (spec, redis, enabled) with a true new value, by
\* teardown -- so for (spec, ui, redis) and (spec, redis) too; an entry with
\* no such element, (spec, ui, redisHost) included, is handled by the podinfo
\* lookup.
C23_RedisClassification ==
    (handler = "on_update" /\ (pc # "idle" \/ (OnUpdateReturned /\ phase = "idle"))) =>
        \A k \in 1..Len(EntryStarts) :
            LET f == pdiff[k].field
                has == "redis" \in {f[m] : m \in DOMAIN f}
                enabling == f = <<"spec", "redis", "enabled">> /\ pdiff[k].new = TRUE
            IN /\ EntryStarts[k][2] = (IF has THEN "redis" ELSE "podinfo")
               /\ (has /\ ~enabling) => EntryStarts[k][1] = "teardown_deployment"
               /\ (has /\ enabling) => EntryStarts[k][1] = "get_deployment"
               /\ ~has => EntryStarts[k][1] = "get_deployment"
               /\ f \in {<<"spec", "ui", "redis">>, <<"spec", "redis">>} =>
                     EntryStarts[k] = <<"teardown_deployment", "redis">>
               /\ f \in {<<"spec", "ui", "redisHost">>, <<"spec", "ui", "color">>,
                         <<"spec", "ui">>} =>
                     EntryStarts[k] = <<"get_deployment", "podinfo">>

\* the user added a ui key named redis while redis stayed enabled: the entry
\* (spec, ui, redis) sent on_update to teardown and the redis objects are gone
C23_Witness ==
    /\ OnUpdateReturned /\ phase = "idle"
    /\ RedisFlag
    /\ \E k \in 1..Len(pdiff) :
         /\ pdiff[k].field = <<"spec", "ui", "redis">>
         /\ EntryStarts[k] = <<"teardown_deployment", "redis">>
    /\ status.on_create.children.redis.uid # ""
    /\ ~\E o \in deployments \cup services : o.metadata.name = "redis"

\* ------------------------------------------------- concurrent callers
\* the objects of the kind the two callers are applying
RacedObjects == IF handler = "create_or_update_deployment" THEN deployments ELSE services

\* caller w's create was accepted; caller w's create met a conflict and its
\* patch went through
CallerCreated(w) ==
    /\ Len(trace[w]) = 3
    /\ trace[w][2].code = 201
    /\ trace[w][3].ev = "return"
CallerPatched(w) ==
    /\ Len(trace[w]) = 4
    /\ trace[w][2].code = Conflict
    /\ trace[w][3].ev = "api" /\ trace[w][3].name = name /\ trace[w][3].code = 200
    /\ trace[w][4].ev = "return"

StatusArgumentChildren == IF pc = "idle" THEN result.value ELSE new_status

\* C25: once on_update has returned, the status that was passed in -- its
\* on_create.children in particular -- is as it was when the handler began,
\* and DEFAULT_STATUS is as the module defines it.
C25_NoSharedMutableState ==
    OnUpdateReturned =>
        /\ StatusArgumentChildren = status.on_create.children
        /\ DEFAULT_STATUS = [created_on |-> "Not Created", uid |-> ""]

\* the Deployment (Service) is the redis workload the operator always asks for
IsFixedRedisDeployment(d) ==
    /\ d.metadata.name = "redis"
    /\ d.spec.replicas = 1
    /\ Len(d.spec.template.containers) = 1
    /\ d.spec.template.containers[1].image = "redis:7.0.12"
    /\ d.spec.template.containers[1].resources =
          [requests |-> [cpu |-> "100m", memory |-> "32Mi"],
           limits |-> [cpu |-> "1000m", memory |-> "128Mi"]]
    /\ d.spec.template.containers[1].env = <<>>
    /\ d.spec.template.containers[1].ports = << [container_port |-> 6379] >>
IsFixedRedisService(s) ==
    /\ s.metadata.name = "redis"
    /\ s.spec.ports = << [name |-> "redis", protocol |-> "TCP", port |-> 6379] >>

\* C26: whatever the parent's spec is and however it was edited, every redis
\* Deployment handed to the cluster by on_create or on_update has image
\* redis:7.0.12, one replica, the fixed resources and no environment, every
\* redis Service exposes port 6379, and so do the live redis objects.
C26_RedisIndependentOfSpec ==
    /\ \A j \in ApiCallsOn("redis") :
         Verb(trace[j].api) \in {"create", "patch"} =>
            IF trace[j].body.kind = "Deployment"
            THEN IsFixedRedisDeployment(trace[j].body)
            ELSE IsFixedRedisService(trace[j].body)
    /\ \A d \in deployments : d.metadata.name = "redis" => IsFixedRedisDeployment(d)
    /\ \A s \in services : s.metadata.name = "redis" => IsFixedRedisService(s)
    /\ (pc \in {"adopt_deploy_obj", "adopt_svc_obj", "create_deployment"} /\ name = "redis") =>
         IsFixedRedisDeployment(deploy_obj) /\ IsFixedRedisService(svc_obj)

\* the spec was edited to another image tag, a ui section and redis enabled,
\* and the update created the redis objects
C26_Witness ==
    /\ OnUpdateReturned
    /\ spec.image.tag = "v2" /\ "ui" \in DOMAIN spec /\ RedisFlag
    /\ Len(pdiff) = 3
    /\ \E j \in ApiCallsOn("redis") :
         trace[j].api = "create_namespaced_deployment" /\ trace[j].code = 201
    /\ \E d \in deployments : d.metadata.name = "redis"
    /\ \E s \in services : s.metadata.name = "redis"

\* the Deployment routes to its own pods under the component's name label and
\* runs one container of that name
IsCoupledDeployment(d) ==
    /\ d.spec.selector = [matchLabels |-> [name |-> d.metadata.name]]
    /\ d.spec.template.labels = [name |-> d.metadata.name]
    /\ Len(d.spec.template.containers) = 1
    /\ d.spec.template.containers[1].name = d.metadata.name
    /\ Len(d.spec.template.containers[1].ports) = 1

\* the Service selects the pods of the Deployment and its port is the
\* container port the Deployment exposes
IsCoupled(s, d) ==
    /\ IsCoupledDeployment(d)
    /\ s.spec.selector = [name |-> d.metadata.name]
    /\ s.spec.selector = d.spec.selector.matchLabels
    /\ s.spec.selector = d.spec.template.labels
    /\ Len(s.spec.ports) = 1
    /\ s.spec.ports[1].port = d.spec.template.containers[1].ports[1].container_port

\* the create sequences of the trace, as pairs of the indices of the API call
\* that sent the Deployment and of the one that sent the Service of one name
AppliedPairs ==
    LET sent == {j \in 1..Len(trace) : trace[j].ev = "api" /\ trace[j].body # None}
        sent_deployments == {j \in sent : trace[j].body.kind = "Deployment"}
        sent_services == {j \in sent : trace[j].body.kind = "Service"}
    IN {p \in sent_deployments \X sent_services :
           trace[p[1]].body.metadata.name = trace[p[2]].body.metadata.name}

\* C27: for each component (the label key app.kubernetes.io/name is written
\* name here) the Service's selector, the Deployment's selector matchLabels and
\* the pod template's labels are all exactly {name: <component>}, the single
\* container is named after the component and the Service port is the
\* container port -- for the objects sent to the cluster and for the live ones.
C27_SelectorCoupling ==
    /\ \A p \in AppliedPairs :
         /\ IsCoupled(trace[p[2]].body, trace[p[1]].body)
         /\ trace[p[1]].body.metadata.name \in {"podinfo", "redis"}
    /\ \A d \in deployments : \A s \in services :
         d.metadata.name = s.metadata.name => IsCoupled(s, d)
    /\ \A s \in services :
         s.spec.ports[1].port = (IF s.metadata.name = "redis" THEN 6379 ELSE 9898)

\* on_create applied both components and all four objects are live
C27_Witness ==
    /\ OnCreateReturned /\ RedisFlag
    /\ \E p, q \in AppliedPairs :
         /\ trace[p[1]].body.metadata.name = "podinfo"
         /\ trace[q[1]].body.metadata.name = "redis"
    /\ \E d \in deployments, s \in services :
         d.metadata.name = "redis" /\ s.metadata.name = "redis" /\ IsCoupled(s, d)
    /\ \E d \in deployments, s \in services :
         d.metadata.name = "podinfo" /\ s.metadata.name = "podinfo" /\ IsCoupled(s, d)

\* the handler is working on a redis-related entry of the diff
OnRedisEntry ==
    /\ handler = "on_update"
    /\ pc \notin {"idle", "loop"}
    /\ diff # <<>>
    /\ \E k \in 1..Len(Head(diff).field) : Head(diff).field[k] = "redis"

\* the event concerns the podinfo Deployment or Service
ConcernsPodinfo(e) ==
    \/ e.ev \in {"adopt", "call", "api"} /\ e.name = "podinfo"
    \/ e.ev \in {"call", "api"} /\ e.body # None /\ e.body.metadata.name = "podinfo"
    \/ e.ev = "return" /\ e.value \notin {None, V1Status}
         /\ "metadata" \in DOMAIN e.value /\ e.value.metadata.name = "podinfo"

\* C28: no step that on_update takes for a redis-related entry looks up,
\* adopts, creates, patches or deletes anything of podinfo: none of the events
\* of such a step concerns podinfo, the live podinfo Deployment and Service are
\* left exactly as they were (PODINFO_CACHE_SERVER = tcp://redis:6379 included)
\* and the podInfo status is not touched.
C28_RedisEntryLeavesPodinfo ==
    [][ (OnRedisEntry /\ trace' # trace) =>
            /\ \A j \in (Len(trace) + 1)..Len(trace') : ~ConcernsPodinfo(trace'[j])
            /\ {d \in deployments' : d.metadata.name = "podinfo"}
                 = {d \in deployments : d.metadata.name = "podinfo"}
            /\ {s \in services' : s.metadata.name = "podinfo"}
                 = {s \in services : s.metadata.name = "podinfo"}
            /\ \A d \in deployments' :
                 d.metadata.name = "podinfo" =>
                    d.spec.template.containers[1].env[1]
                      = [name |-> "PODINFO_CACHE_SERVER", value |-> "tcp://redis:6379"]
            /\ pc' # "idle" => new_status'.podInfo = new_status.podInfo
      ]_vars

\* an update whose only entry disabled redis has returned: the redis objects
\* were deleted, nothing of podinfo was touched, and the live podinfo
\* Deployment still points at tcp://redis:6379
C28_Witness ==
    /\ OnUpdateReturned /\ phase = "idle"
    /\ Len(pdiff) = 1
    /\ \E j \in ApiCallsOn("redis") :
         trace[j].api = "delete_namespaced_service" /\ trace[j].code = 200
    /\ \A j \in 1..Len(trace) : ~ConcernsPodinfo(trace[j])
    /\ ~\E o \in deployments \cup services : o.metadata.name = "redis"
    /\ \E d \in deployments :
         /\ d.metadata.name = "podinfo"
         /\ d.spec.template.containers[1].env[1].value = "tcp://redis:6379"

\* C29: after every on_update that returned, no other actor having deleted
\* anything, the redis Deployment and the redis Service exist when the spec
\* has redis.enabled true and neither exists otherwise, whatever the shape of
\* the diff.
C29_UpdateConvergesRedis ==
    (OnUpdateReturned /\ phase = "idle" /\ externals = 0) =>
        IF RedisFlag
        THEN /\ \E d \in deployments : d.metadata.name = "redis"
             /\ \E s \in services : s.metadata.name = "redis"
        ELSE ~\E o \in deployments \cup services : o.metadata.name = "redis"

\* the children map most recently returned by a handler
LastReturnedChildren == IF handler = "on_create" THEN result.value.children ELSE result.value

\* C30: after any sequence of successful handlings on a cluster that injects
\* no error and where no other actor deletes anything, the status returned
\* last has a non-empty redis uid exactly when a redis Deployment exists, and
\* then it is that Deployment's uid.
C30_StatusMatchesCluster ==
    (pc = "idle" /\ handler # "none" /\ result.kind = "return" /\ faults = 0 /\ externals = 0) =>
        /\ LastReturnedChildren.redis.uid # ""
             <=> \E d \in deployments : d.metadata.name = "redis"
        /\ \A d \in deployments :
             d.metadata.name = "redis" => LastReturnedChildren.redis.uid = d.metadata.uid

\* ------------------------------------------- on_update as one function
\* What one run of on_update does on a cluster that answers every call without
\* an injected error and where nobody else acts, as a function of the diff in
\* the order given.  A run state r holds the namespace's Deployments and
\* Services, the creation counter and new_status.

\* create_deployment_and_service for component n (lines 63-93), both gateway
\* calls taking their create-or-patch path
ApplySequence(n, r, s) ==
    LET d == Adopt(BuildDeployment(Args(n, s)))
        sv == Adopt(BuildService(Args(n, s)))
        created == CreateCode(r.deployments, n) = 201
        dep == IF created THEN Stored(d, r.clock)
               ELSE PatchedDeployment(TheObject(r.deployments, n), d)
        deps == IF created THEN r.deployments \cup {dep}
                ELSE (r.deployments \ {TheObject(r.deployments, n)}) \cup {dep}
        clk == IF created THEN r.clock + 1 ELSE r.clock
        screated == CreateCode(r.services, n) = 201
        svc == IF screated THEN Stored(sv, clk)
               ELSE PatchedService(TheObject(r.services, n), sv)
        svcs == IF screated THEN r.services \cup {svc}
                ELSE (r.services \ {TheObject(r.services, n)}) \cup {svc}
    IN [deployments |-> deps,
        services |-> svcs,
        clock |-> IF screated THEN clk + 1 ELSE clk,
        new_status |-> [r.new_status EXCEPT ![StatusKey(n)] = Metadata(dep)]]

\* the body of on_update's loop for one entry (lines 248-272)
RunEntry(e, r, s) ==
    LET n == IF InField("redis", e.field) THEN REDIS_DEPLOYMENT_NAME
             ELSE PODINFO_DEPLOYMENT_NAME
    IN IF InField("redis", e.field) /\ ~RedisEnabled(e)
       THEN [r EXCEPT !.deployments = @ \ Named(@, n), !.services = @ \ Named(@, n)]
       ELSE IF Proceeds(n, ScanItems(ListItems(r.deployments), n))
       THEN ApplySequence(n, r, s)
       ELSE r

\* on_update's loop over the diff d (line 247), from the run state r
RECURSIVE RunDiff(_, _, _)
RunDiff(d, r, s) ==
    IF d = <<>> THEN r ELSE RunDiff(Tail(d), RunEntry(Head(d), r, s), s)

\* what on_update leaves and returns: the Deployments, the Services and the
\* status map
Outcome(r) == <<r.deployments, r.services, r.new_status>>

\* the run state on_update starts from (line 246)
RunStart ==
    [deployments |-> deployments, services |-> services, clock |-> clock,
     new_status |-> status.on_create.children]

\* C31: from every state in which the framework could deliver an update (no
\* handler running, Create completed), for every new spec and every order of
\* the entries of its diff, on_update leaves the same Deployments and Services
\* and returns the same status map.
C31_DiffOrderIrrelevant ==
    (pc = "idle" /\ phase = "idle" /\ "on_create" \in DOMAIN status) =>
        \A new \in FieldSpecs \ {spec} :
           LET d == KopfDiff(spec, new)
               reference == Outcome(RunDiff(d, RunStart, new))
           IN \A p \in Permutations(1..Len(d)) :
                Outcome(RunDiff([i \in 1..Len(d) |-> d[p[i]]], RunStart, new)) = reference

\* the update event's diff is the single entry that enables redis
EnablingDiff == Len(pdiff) = 1 /\ RedisEnabled(pdiff[1])

\* C32: an on_update for the enabling diff that returned after an earlier
\* attempt for the same event had created the redis Deployment and failed at
\* the redis Service (redis was not created at Create and nobody else acted,
\* so the Deployment the lookup found is that attempt's) ends with the redis
\* Deployment and the redis Service present, and returns as redis status the
\* uid of the live Deployment.
C32_RetryEnableConverges ==
    (/\ OnUpdateReturned /\ EnablingDiff
     /\ edits = 1 /\ externals = 0
     /\ status.on_create.children.redis = DEFAULT_STATUS
     /\ \E i \in Lookups("redis") : trace[i].value # None) =>
        /\ \E s \in services : s.metadata.name = "redis"
        /\ \E d \in deployments :
             d.metadata.name = "redis" /\ result.value.redis.uid = d.metadata.uid

\* a handler ran to its return, from an empty namespace, on a cluster that
\* injected no error and where no other actor deleted anything
CompletedUndisturbed ==
    pc = "idle" /\ handler # "none" /\ result.kind = "return" /\ faults = 0 /\ externals = 0

\* C33: after every on_create or on_update that completed on an undisturbed
\* cluster, the podinfo Deployment exists exactly when the podinfo Service
\* does, and the redis Deployment exactly when the redis Service does.
C33_DeploymentServicePairs ==
    CompletedUndisturbed =>
        \A n \in {PODINFO_DEPLOYMENT_NAME, REDIS_DEPLOYMENT_NAME} :
           (\E d \in deployments : d.metadata.name = n)
             <=> (\E s \in services : s.metadata.name = n)

\* an update on an undisturbed cluster deleted the redis Deployment and the
\* redis Service that Create had made: the podinfo pair is there, the redis
\* pair is gone
C33_Witness ==
    /\ CompletedUndisturbed /\ handler = "on_update"
    /\ status.on_create.children.redis.uid # ""
    /\ \E j \in 1..Len(trace) :
         /\ trace[j].ev = "api" /\ trace[j].api = "delete_namespaced_deployment"
         /\ trace[j].code = 200
    /\ \E d \in deployments : d.metadata.name = "podinfo"
    /\ \E s \in services : s.metadata.name = "podinfo"
    /\ Cardinality(deployments) = 1 /\ Cardinality(services) = 1

\* the delete calls among the events a step adds to the trace
DeletesOf(before, after) ==
    {j \in (Len(before) + 1)..Len(after) :
        after[j].ev = "api" /\ Verb(after[j].api) = "delete"}

\* C34: every delete call a handler issues is on_update's, by name, for the
\* Deployment or the Service named redis in the parent's namespace; on_create
\* issues none; and no step of a handler removes the podinfo Deployment or the
\* podinfo Service from the cluster (only another actor's deletion does).
C34_OnlyRedisDeleted ==
    [][ /\ \A j \in DeletesOf(trace, trace') :
             /\ handler = "on_update"
             /\ trace'[j].name = "redis"
             /\ trace'[j].namespace = NAMESPACE
             /\ trace'[j].fn \in {"teardown_deployment", "teardown_service"}
        /\ externals' = externals =>
             /\ \A d \in deployments :
                  d.metadata.name = "podinfo" =>
                     \E e \in deployments' : e.metadata.name = "podinfo"
             /\ \A s \in services :
                  s.metadata.name = "podinfo" =>
                     \E e \in services' : e.metadata.name = "podinfo"
             /\ handler' = "on_create" =>
                  /\ \A d \in deployments :
                       \E e \in deployments' : e.metadata.name = d.metadata.name
                  /\ \A s \in services :
                       \E e \in services' : e.metadata.name = s.metadata.name
      ]_vars

\* an update for a spec whose redis section was removed has issued its two
\* deletes, both for redis and both answered 200, and the podinfo Deployment
\* and Service are still there
C34_Witness ==
    /\ OnUpdateReturned /\ "redis" \notin DOMAIN spec
    /\ Cardinality(DeletesOf(<<>>, trace)) = 2
    /\ \A j \in DeletesOf(<<>>, trace) : trace[j].name = "redis" /\ trace[j].code = 200
    /\ \E d \in deployments : d.metadata.name = "podinfo"
    /\ \E s \in services : s.metadata.name = "podinfo"
    /\ ~\E o \in deployments \cup services : o.metadata.name = "redis"

\* ------------------ an update event for a parent with or without a status
\* on_create as one function on an error-free, empty namespace (lines 195-212)
CreateRun(s) ==
    LET r0 == [deployments |-> {}, services |-> {}, clock |-> 1,
               new_status |-> [redis |-> DEFAULT_STATUS, podInfo |-> DEFAULT_STATUS]]
        r1 == ApplySequence(PODINFO_DEPLOYMENT_NAME, r0, s)
    IN IF GetRedisEnabled(s) THEN ApplySequence(REDIS_DEPLOYMENT_NAME, r1, s) ELSE r1

\* The framework delivers an update event (the spec went from old to the
\* current one; with old the current spec itself, the event's diff is empty).
\* Either Create completed for the old spec and its result is in the status,
\* or it never completed and the status has no on_create subtree, the
\* namespace being empty or holding what a create attempt wrote.
UpdateInit ==
    /\ default_status = DEFAULT_STATUS
    /\ spec \in Specs
    /\ \E old \in Specs :
         /\ \E p \in Permutations(1..Len(KopfDiff(old, spec))) :
              pdiff = [i \in 1..Len(KopfDiff(old, spec)) |-> KopfDiff(old, spec)[p[i]]]
         /\ \E completed \in BOOLEAN, written \in BOOLEAN :
              /\ completed => written
              /\ status = IF completed
                          THEN [on_create |-> Children(CreateRun(old).new_status.redis,
                                                       CreateRun(old).new_status.podInfo)]
                          ELSE <<>>
              /\ deployments = IF written THEN CreateRun(old).deployments ELSE {}
              /\ services = IF written THEN CreateRun(old).services ELSE {}
              /\ clock = IF written THEN CreateRun(old).clock ELSE 1
    /\ phase = "update"
    /\ pc = "idle"
    /\ handler = "none"
    /\ diff = <<>>
    /\ new_status = None
    /\ name = ""
    /\ deploy_obj = None
    /\ svc_obj = None
    /\ deployment = Unbound
    /\ podinfo_status = None
    /\ trace = <<>>
    /\ result = NoResult
    /\ faults = 0
    /\ externals = MaxDisturbances
    /\ edits = 0
    /\ applied = [n \in {PODINFO_DEPLOYMENT_NAME, REDIS_DEPLOYMENT_NAME} |-> None]

UpdateNext ==
    \/ on_update
    \/ on_update_loop
    \/ get_deployment
    \/ create_deployment_and_service
    \/ adopt_deploy_obj
    \/ adopt_svc_obj
    \/ create_or_update_deployment
    \/ patch_deployment
    \/ create_or_update_service
    \/ patch_service
    \/ teardown_deployment
    \/ teardown_service

UpdateSpec == UpdateInit /\ [][UpdateNext]_vars

\* C35: while the parent's status has no on_create subtree, the only thing an
\* on_update does is raise: the step that starts it ends it with an exception,
\* no diff entry is taken up, the trace holds no list, create, patch or delete
\* call, and the Deployments and Services are what they were.
C35_UpdateWithoutCreateStatus ==
    [][ "on_create" \notin DOMAIN status =>
           /\ pc' = "idle"
           /\ handler' = "on_update"
           /\ result'.kind = "raise"
           /\ \A j \in 1..Len(trace') : trace'[j].ev = "raise"
           /\ diff' = <<>>
           /\ deployments' = deployments
           /\ services' = services
           /\ status' = status
      ]_vars

\* on_update was called with a non-empty diff for a parent without status while
\* the namespace held children, and it has raised KeyError
C35_Witness ==
    /\ status = <<>>
    /\ handler = "on_update" /\ pc = "idle"
    /\ result = [kind |-> "raise", exc |-> KeyError]
    /\ trace = <<RaiseEvent("on_update", KeyError)>>
    /\ pdiff # <<>>
    /\ deployments # {} /\ services # {}

\* C36: an on_update called with an empty diff (Create having completed) makes
\* no cluster call of any kind, leaves the handler only by returning, and
\* returns exactly status.on_create.children, which the framework stores as
\* the update's result.
C36_EmptyDiffNoCalls ==
    (handler = "on_update" /\ pdiff = <<>> /\ "on_create" \in DOMAIN status) =>
        /\ trace = <<>>
        /\ pc \in {"loop", "idle"}
        /\ pc = "loop" => new_status = status.on_create.children
        /\ pc = "idle" =>
             /\ result = [kind |-> "return", value |-> status.on_create.children]
             /\ status.on_update = status.on_create.children
             /\ deployments = CreateRun(spec).deployments
             /\ services = CreateRun(spec).services

\* on_update has returned for an empty diff, with redis created at Create: the
\* returned map is the one Create recorded, redis uid included
C36_Witness ==
    /\ OnUpdateReturned /\ pdiff = <<>>
    /\ trace = <<>>
    /\ result.value = status.on_create.children
    /\ result.value.redis.uid # ""
    /\ Cardinality(deployments) = 2

\* ------------------------------------- a second parent in the namespace
\* The namespace already holds the children that on_create made for another
\* parent (from one of Specs); the parent followed here is created in the same
\* namespace and later edited.  The cluster injects no error.
OTHER_PARENT_UID == "other-parent-uid"

OwnedByOther(objs) ==
    {[o EXCEPT !.metadata.ownerReferences = {OTHER_PARENT_UID}] : o \in objs}

SharedInit ==
    /\ default_status = DEFAULT_STATUS
    /\ \E first \in Specs :
         /\ deployments = OwnedByOther(CreateRun(first).deployments)
         /\ services = OwnedByOther(CreateRun(first).services)
         /\ clock = CreateRun(first).clock
    /\ spec \in Specs
    /\ status = <<>>
    /\ phase = "create"
    /\ pdiff = <<>>
    /\ pc = "idle"
    /\ handler = "none"
    /\ diff = <<>>
    /\ new_status = None
    /\ name = ""
    /\ deploy_obj = None
    /\ svc_obj = None
    /\ deployment = Unbound
    /\ podinfo_status = None
    /\ trace = <<>>
    /\ result = NoResult
    /\ faults = MaxDisturbances
    /\ externals = 0
    /\ edits = 0
    /\ applied = [n \in {PODINFO_DEPLOYMENT_NAME, REDIS_DEPLOYMENT_NAME} |-> None]

SharedNext ==
    \/ on_create
    \/ on_update
    \/ on_update_loop
    \/ get_deployment
    \/ create_deployment_and_service
    \/ adopt_deploy_obj
    \/ adopt_svc_obj
    \/ create_or_update_deployment
    \/ patch_deployment
    \/ create_or_update_service
    \/ patch_service
    \/ teardown_deployment
    \/ teardown_service
    \/ EditSpec

SharedSpec == SharedInit /\ [][SharedNext]_vars

\* the other parent's podinfo Deployment is the only one there ever is
OnePodinfoDeployment ==
    /\ \E d \in deployments : d.metadata.name = "podinfo"
    /\ \A d \in deployments :
         d.metadata.name = "podinfo" =>
            d.metadata.uid = "uid-1" /\ OTHER_PARENT_UID \in d.metadata.ownerReferences

\* on_create of the second parent got 409 for podinfo and patched the other
\* parent's Deployment: same uid, now also owned by the second parent and
\* carrying the second parent's image and replica count
CreatePatchedTheOthers ==
    (OnCreateReturned /\ edits = 0) =>
        /\ \E j \in 1..Len(trace) :
             /\ trace[j].ev = "api" /\ trace[j].api = "create_namespaced_deployment"
             /\ trace[j].body.metadata.name = "podinfo" /\ trace[j].code = Conflict
        /\ ~\E j \in 1..Len(trace) :
              /\ trace[j].ev = "api" /\ trace[j].api = "create_namespaced_deployment"
              /\ trace[j].body.metadata.name = "podinfo" /\ trace[j].code = 201
        /\ result.value.children.podInfo.uid = "uid-1"
        /\ \A d \in deployments :
             d.metadata.name = "podinfo" =>
                /\ PARENT_UID \in d.metadata.ownerReferences
                /\ d.spec.replicas = spec.replicaCount
                /\ d.spec.template.containers[1].image
                     = spec.image.repository \o ":" \o spec.image.tag

\* a teardown step of the second parent's update spares nothing named redis,
\* whoever owns it
TeardownSparesNothing ==
    /\ pc = "teardown_deployment" => \A d \in deployments' : d.metadata.name # "redis"
    /\ pc = "teardown_service" => \A s \in services' : s.metadata.name # "redis"

\* C37: with another parent's children in the namespace, on_create of a second
\* parent never creates a podinfo Deployment of its own (its create is
\* answered 409 and it patches the other parent's, whose uid it reports), and
\* a redis teardown of the second parent's update deletes every redis
\* Deployment and Service, the other parent's included.
C37_ParentsNotIsolated ==
    /\ [](OnePodinfoDeployment /\ CreatePatchedTheOthers)
    /\ [][TeardownSparesNothing]_vars

\* the second parent never had redis of its own (its Create recorded the
\* default redis status and reported the other parent's podinfo uid), and its
\* update has deleted the redis Deployment and Service, which were the other
\* parent's
C37_Witness ==
    /\ OnUpdateReturned
    /\ status.on_create.children.redis = DEFAULT_STATUS
    /\ status.on_create.children.podInfo.uid = "uid-1"
    /\ result.value.redis = DEFAULT_STATUS
    /\ \E j \in 1..Len(trace) :
         /\ trace[j].ev = "api" /\ trace[j].api = "delete_namespaced_deployment"
         /\ trace[j].code = 200
    /\ \E j \in 1..Len(trace) :
         /\ trace[j].ev = "api" /\ trace[j].api = "delete_namespaced_service"
         /\ trace[j].code = 200
    /\ ~\E o \in deployments \cup services : o.metadata.name = "redis"

\* ------------------------------------------- Create retried until it succeeds
\* on_create alone: the framework keeps the create event pending after a
\* failed attempt and calls on_create again, and a handler that has started
\* runs on to its return or its exception (weak fairness of the handler's
\* steps).  The cluster's injected errors are bounded by MaxDisturbances, so
\* they stop; nobody else acts.
RetryNext ==
    \/ on_create
    \/ create_deployment_and_service
    \/ adopt_deploy_obj
    \/ adopt_svc_obj
    \/ create_or_update_deployment
    \/ patch_deployment
    \/ create_or_update_service
    \/ patch_service

RetrySpec == Init /\ [][RetryNext]_vars /\ WF_vars(RetryNext)

\* the children the spec asks for are all there
ChildrenReconciled ==
    /\ \E d \in deployments : d.metadata.name = "podinfo"
    /\ \E s \in services : s.metadata.name = "podinfo"
    /\ RedisFlag =>
         /\ \E d \in deployments : d.metadata.name = "redis"
         /\ \E s \in services : s.metadata.name = "redis"

\* C38: with on_create called again after every failed attempt and the
\* cluster's errors (other than 409) coming to an end, an on_create attempt
\* eventually returns; and whenever one has returned, the podinfo Deployment
\* and Service exist, and so do the redis Deployment and Service if
\* spec.redis.enabled is true.
C38_CreateEventuallyReconciles ==
    /\ <>(OnCreateReturned /\ pc = "idle" /\ ChildrenReconciled)
    /\ [](OnCreateReturned => ChildrenReconciled)

\* an attempt failed after it had created the podinfo Deployment, and the
\* retry patched it, applied the rest and returned with redis enabled
C38_Witness ==
    /\ OnCreateReturned /\ pc = "idle" /\ RedisFlag
    /\ faults > 0
    /\ \E j \in 1..Len(trace) :
         /\ trace[j].ev = "api" /\ trace[j].api = "patch_namespaced_deployment"
         /\ trace[j].name = "podinfo" /\ trace[j].code = 200
    /\ ChildrenReconciled

\* ------------------------------- one operator process, parent after parent
\* The module is loaded once and its handlers serve every parent.  A first
\* parent is created with redis not enabled (its recorded redis status is the
\* default) and edited; after an update has returned, the create event of a
\* further parent in the namespace may arrive.  The cluster injects no error.
ProcessInit ==
    /\ default_status = DEFAULT_STATUS
    /\ deployments = {}
    /\ services = {}
    /\ clock = 1
    /\ spec \in {s \in Specs : ~GetRedisEnabled(s)}
    /\ status = <<>>
    /\ phase = "create"
    /\ pdiff = <<>>
    /\ pc = "idle"
    /\ handler = "none"
    /\ diff = <<>>
    /\ new_status = None
    /\ name = ""
    /\ deploy_obj = None
    /\ svc_obj = None
    /\ deployment = Unbound
    /\ podinfo_status = None
    /\ trace = <<>>
    /\ result = NoResult
    /\ faults = MaxDisturbances
    /\ externals = 0
    /\ edits = 0
    /\ applied = [n \in {PODINFO_DEPLOYMENT_NAME, REDIS_DEPLOYMENT_NAME} |-> None]

\* the framework delivers the create event of a further parent
NextParent ==
    /\ pc = "idle"
    /\ handler = "on_update"
    /\ phase = "idle"
    /\ spec' \in Specs
    /\ status' = <<>>
    /\ pdiff' = <<>>
    /\ phase' = "create"
    /\ UNCHANGED <<cluster, pc, handler, locals, trace, result, budgets, applied,
                   default_status>>

ProcessNext ==
    \/ on_create
    \/ on_update
    \/ on_update_loop
    \/ get_deployment
    \/ create_deployment_and_service
    \/ adopt_deploy_obj
    \/ adopt_svc_obj
    \/ create_or_update_deployment
    \/ patch_deployment
    \/ create_or_update_service
    \/ patch_service
    \/ teardown_deployment
    \/ teardown_service
    \/ EditSpec
    \/ NextParent

ProcessSpec == ProcessInit /\ [][ProcessNext]_vars

\* C39: whatever on_create and on_update invocations the process has served,
\* the module's DEFAULT_STATUS dict is {created_on: "Not Created", uid: ""},
\* and an on_create that returned for a spec with redis not enabled reports
\* exactly that as the redis status.
C39_DefaultStatusConstant ==
    /\ default_status = [created_on |-> "Not Created", uid |-> ""]
    /\ (OnCreateReturned /\ pc = "idle" /\ ~RedisFlag) =>
          result.value.children.redis = [created_on |-> "Not Created", uid |-> ""]

\* the first parent's redis status was the default; an update enabled redis
\* and merged the new redis status into that map; the on_create of a later
\* parent with redis not enabled has returned and reports the default
C39_Witness ==
    /\ OnCreateReturned /\ pc = "idle" /\ ~RedisFlag
    /\ edits > 0
    /\ \E d \in deployments : d.metadata.name = "redis"
    /\ result.value.children.redis = [created_on |-> "Not Created", uid |-> ""]
    /\ default_status = [created_on |-> "Not Created", uid |-> ""]

====
